---- MODULE Spec2Model ----
(***************************************************************************)
(* A model of the openkit installer library (install.ts): the hook         *)
(* composer mergeHooks and the invocation of the callables it builds, the  *)
(* plugin module executor loadPlugins, the agent/command loaders and the   *)
(* file installer installExtensions/copyDir; and of the command line      *)
(* helpers: the opencode.json plugin list (config.ts), the add and remove  *)
(* commands and the registry search.                                       *)
(*                                                                         *)
(* JavaScript objects that the code can alias or mutate (hook sets, tool   *)
(* maps) live in a heap of objects addressed by reference; closures are    *)
(* immutable values (a primitive plugin callable, or the two-stage async   *)
(* arrow function mergeHooks creates around prev and next).                *)
(***************************************************************************)
EXTENDS Integers, Sequences, FiniteSets, TLC

VARIABLES
    \* ---- hook composition and invocation (SpecMerge)
    heap,      \* sequence of objects; a reference is an index into it
    hooks,     \* reference of the accumulated hook set (createInstallerPlugin's `hooks`)
    play,      \* the callable field the plugin modules of this run contribute to
    merges,    \* history of the mergeHooks calls made so far (for the properties)
    inv,       \* the slot whose merged callable the host invoked, or "none"
    cont,      \* the callables still to be called by the composite invocation
    running,   \* the primitive callables started and not yet settled
    log,       \* start/end events of the primitive callables, in order
    status,    \* "idle" | "running" | "resolved" | "rejected"
    \* ---- plugin module executor (SpecLoad)
    pluginDir, \* the plugins directory: whether it exists, and its entries in readdir order
    lpc,       \* where loadPlugins is: "off" | "import" | "call" | "done"
    entry,     \* index of the directory entry being processed
    expIdx,    \* index of the export being processed (Object.values order)
    seen,      \* the callables already invoked for the current module
    hooksList, \* the hook sets collected so far
    imports,   \* the entries whose module import was started, in order
    calls,     \* every invocation of an exported callable so far, in order
    warnings,  \* the entries a warning was logged for
    \* ---- installer (SpecInstall)
    source,    \* the package's opencode/ tree: the relative paths of its files
    dest,      \* the project's .opencode/ tree: relative path -> file content
    destDirs,  \* the directories of the project's .opencode/ tree
    dirs,      \* options.dirs
    overwrite, \* options.overwrite
    report,    \* what the last installExtensions call returned
    destBefore,\* dest as it was when the last installExtensions call began
    passes,    \* how many installExtensions calls have been made
    \* ---- agent and command loaders (SpecAgents)
    mdDirs,    \* kind -> the package's directory of that kind
    loaded,    \* kind -> whether its loader has run, and what it returned
    mdWarnings,\* the files a loader logged a warning for
    \* ---- plugin activation (SpecActivate)
    act,       \* where the activation is ("off", "start", "loading", "returned"), and the hook set it returned
    \* ---- opencode.json plugin list (SpecConfig)
    manifest,  \* the project's opencode.json: file state, $schema and the plugin list
    lastOp,    \* the last addPlugin/removePlugin call: what it was given, found, returned and wrote
    lastCall,  \* package -> the last call made on it ("none", "add", "remove")
    \* ---- add and remove commands (SpecCli)
    installed, \* whether node_modules has the package (its package.json)
    cli,       \* the command run: its name, where it is, and its outcome
    steps,     \* the effects the commands had on the project, in order
    \* ---- metadata parser (SpecParse)
    doc,       \* the text given to the parser: a document, or a scalar
    parseOut,  \* the call made on it (op "none" before the call) and what it returned
    \* ---- registry search (SpecSearch)
    lookups,   \* source -> the state of its lookup promise and what it settled with
    settled,   \* the sources in the order their lookups settled
    found      \* the outcome of search and the results it returned

mergeVars == <<heap, hooks, play, merges, inv, cont, running, log, status>>

loadVars == <<pluginDir, lpc, entry, expIdx, seen, hooksList, imports, calls, warnings>>

installVars == <<source, dest, destDirs, dirs, overwrite, report, destBefore, passes>>

agentVars == <<mdDirs, loaded, mdWarnings>>

actVars == <<act>>

configVars == <<manifest, lastOp, lastCall>>

cliVars == <<installed, cli, steps>>

parseVars == <<doc, parseOut>>

searchVars == <<lookups, settled, found>>

vars == <<mergeVars, loadVars, installVars, agentVars, actVars, configVars, cliVars, parseVars, searchVars>>

notMerge == <<loadVars, installVars, agentVars, actVars, configVars, cliVars, parseVars, searchVars>>

notLoad == <<mergeVars, installVars, agentVars, actVars, configVars, cliVars, parseVars, searchVars>>

notInstall == <<mergeVars, loadVars, agentVars, actVars, configVars, cliVars, parseVars, searchVars>>

notAgents == <<mergeVars, loadVars, installVars, actVars, configVars, cliVars, parseVars, searchVars>>

notAct == <<mergeVars, loadVars, installVars, agentVars, configVars, cliVars, parseVars, searchVars>>

notConfig == <<mergeVars, loadVars, installVars, agentVars, actVars, cliVars, parseVars, searchVars>>

notCli == <<mergeVars, loadVars, installVars, agentVars, actVars, configVars, parseVars, searchVars>>

notParse == <<mergeVars, loadVars, installVars, agentVars, actVars, configVars, cliVars, searchVars>>

notSearch == <<mergeVars, loadVars, installVars, agentVars, actVars, configVars, cliVars, parseVars>>

\* the state of a part of the program that a run does not exercise
MergeOff ==
    /\ heap = <<>>
    /\ hooks = 0
    /\ play = "none"
    /\ merges = <<>>
    /\ inv = "none"
    /\ cont = <<>>
    /\ running = <<>>
    /\ log = <<>>
    /\ status = "off"

LoadOff ==
    /\ pluginDir = [exists |-> FALSE, entries |-> <<>>]
    /\ lpc = "off"
    /\ entry = 0
    /\ expIdx = 0
    /\ seen = {}
    /\ hooksList = <<>>
    /\ imports = <<>>
    /\ calls = <<>>
    /\ warnings = <<>>

InstallOff ==
    /\ source = {}
    /\ dest = <<>>
    /\ destDirs = {}
    /\ dirs = <<>>
    /\ overwrite = FALSE
    /\ report = [copied |-> <<>>, skipped |-> <<>>, created |-> <<>>]
    /\ destBefore = <<>>
    /\ passes = 0

AgentsOff ==
    /\ mdDirs = <<>>
    /\ loaded = <<>>
    /\ mdWarnings = <<>>

ActOff ==
    /\ act = [pc |-> "off", returned |-> <<>>]

ConfigOff ==
    /\ manifest = [file |-> "missing", schema |-> FALSE, hasPlugin |-> FALSE, plugin |-> <<>>]
    /\ lastOp = <<>>
    /\ lastCall = <<>>

CliOff ==
    /\ installed = FALSE
    /\ cli = [cmd |-> "none", pc |-> "off", outcome |-> "none"]
    /\ steps = <<>>

ParseOff ==
    /\ doc = <<>>
    /\ parseOut = <<>>

SearchOff ==
    /\ lookups = <<>>
    /\ settled = <<>>
    /\ found = <<>>

----------------------------------------------------------------------------
(* Bounds *)

\* how many mergeHooks calls one run folds
MaxSets == 2

----------------------------------------------------------------------------
(* Generic helpers *)

Range(s) == {s[i] : i \in DOMAIN s}

\* the object literal {}
EmptyObj == [f \in {} |-> 0]

\* o[f] is truthy (fields hold objects or functions, never falsy values)
Has(h, o, f) == f \in DOMAIN h[o]

\* o[f] = v
SetField(h, o, f, v) == [h EXCEPT ![o] = (f :> v) @@ @]

----------------------------------------------------------------------------
(* mergeHooks *)

\* a list that forgets the post-tool-execution hook
hookNamesShort ==
    << "chat.message", "chat.params", "chat.headers",
       "permission.ask", "command.execute.before",
       "tool.execute.before", "tool.definition",
       "shell.env",
       "experimental.chat.messages.transform",
       "experimental.chat.system.transform",
       "experimental.session.compacting",
       "experimental.text.complete" >>

\* a list that has the auth hook too
hookNamesWithAuth ==
    << "auth",
       "chat.message", "chat.params", "chat.headers",
       "permission.ask", "command.execute.before",
       "tool.execute.before", "tool.execute.after", "tool.definition",
       "shell.env",
       "experimental.chat.messages.transform",
       "experimental.chat.system.transform",
       "experimental.session.compacting",
       "experimental.text.complete" >>

\* the fixed list of chained hook names
hookNames ==
    << "chat.message", "chat.params", "chat.headers",
       "permission.ask", "command.execute.before",
       "tool.execute.before", "tool.execute.after", "tool.definition",
       "shell.env",
       "experimental.chat.messages.transform",
       "experimental.chat.system.transform",
       "experimental.session.compacting",
       "experimental.text.complete" >>

\* a callable exported by a plugin (or the installer's own config hook)
Fn(id) == [k |-> "fn", id |-> id]

\* a composer that drops a stage it has already chained
ChainEventOnce(prev, next) ==
    IF prev = next THEN prev
    ELSE [k |-> "chain", prev |-> prev, next |-> next, awaitPrev |-> TRUE, awaitNext |-> TRUE]

\* async (input) => { await prev(input); await next(input) }   (event)
ChainEvent(prev, next) ==
    [k |-> "chain", prev |-> prev, next |-> next, awaitPrev |-> TRUE, awaitNext |-> TRUE]

\* async (input) => { await prev(input); await next(input) }   (config)
ChainConfig(prev, next) ==
    [k |-> "chain", prev |-> prev, next |-> next, awaitPrev |-> TRUE, awaitNext |-> TRUE]

\* a chain that calls prev without awaiting it
ChainNamedNoAwait(prev, next) ==
    [k |-> "chain", prev |-> prev, next |-> next, awaitPrev |-> FALSE, awaitNext |-> TRUE]

\* async (...args) => { await prev(...args); await next(...args) }   (hookNames)
ChainNamed(prev, next) ==
    [k |-> "chain", prev |-> prev, next |-> next, awaitPrev |-> TRUE, awaitNext |-> TRUE]

\* a spread in the wrong order: the earlier value wins
SpreadUnder(a, b) == a @@ b

\* { ...a, ...b }: the keys of both, b's value where both have the key
SpreadOver(a, b) == b @@ a

\* const merged = base: no copy, the result aliases base
AliasOf(h, o) == [heap |-> h, ref |-> o]

\* const merged = { ...base }: a new object with base's own fields
CopyOf(h, o) == [heap |-> Append(h, h[o]), ref |-> Len(h) + 1]

\* if (other.tool) merged.tool = { ...merged.tool, ...other.tool }
MergeTool(h, merged, other) ==
    IF ~Has(h, other, "tool") THEN h
    ELSE LET mt == IF Has(h, merged, "tool") THEN h[h[merged]["tool"]] ELSE EmptyObj
             h1 == Append(h, SpreadOver(mt, h[h[other]["tool"]]))
         IN  SetField(h1, merged, "tool", Len(h1))

\* if (other.event) { ... merged.event = prev ? chain : next }
MergeEvent(h, merged, other) ==
    IF ~Has(h, other, "event") THEN h
    ELSE LET next == h[other]["event"]
         IN  IF Has(h, merged, "event")
             THEN SetField(h, merged, "event", ChainEvent(h[merged]["event"], next))
             ELSE SetField(h, merged, "event", next)

\* if (other.config) { ... merged.config = prev ? chain : next }
MergeConfig(h, merged, other) ==
    IF ~Has(h, other, "config") THEN h
    ELSE LET next == h[other]["config"]
         IN  IF Has(h, merged, "config")
             THEN SetField(h, merged, "config", ChainConfig(h[merged]["config"], next))
             ELSE SetField(h, merged, "config", next)

\* for (const name of hookNames) { if (!other[name]) continue; ... }
RECURSIVE MergeNamed(_, _, _, _)
MergeNamed(h, merged, other, i) ==
    IF i > Len(hookNames) THEN h
    ELSE LET name == hookNames[i]
         IN  IF ~Has(h, other, name) THEN MergeNamed(h, merged, other, i + 1)
             ELSE LET next == h[other][name]
                      h1 == IF Has(h, merged, name)
                            THEN SetField(h, merged, name, ChainNamed(h[merged][name], next))
                            ELSE SetField(h, merged, name, next)
                  IN  MergeNamed(h1, merged, other, i + 1)

\* mergeHooks(base, other): the heap after the call and the returned reference
mergeHooks(h, base, other) ==
    LET c  == CopyOf(h, base)
        h1 == MergeTool(c.heap, c.ref, other)
        h2 == MergeEvent(h1, c.ref, other)
        h3 == MergeConfig(h2, c.ref, other)
        h4 == MergeNamed(h3, c.ref, other, 1)
    IN  [heap |-> h4, result |-> c.ref]

----------------------------------------------------------------------------
(* The hook sets plugin modules return *)

ToolNames == {"x", "y"}

\* fields a hook set can carry besides the tool map: the chained ones, the
\* host's auth hook, and a post-command hook
CallableFields ==
    { "event", "config", "auth",
      "chat.message", "chat.params", "chat.headers",
      "permission.ask", "command.execute.before", "command.execute.after",
      "tool.execute.before", "tool.execute.after", "tool.definition",
      "shell.env",
      "experimental.chat.messages.transform",
      "experimental.chat.system.transform",
      "experimental.session.compacting",
      "experimental.text.complete" }

\* a plugin: the tool names it defines (none: no tool field) and whether it
\* registers a callable in the field in play
Plugins == [keys : SUBSET ToolNames, hook : BOOLEAN, by : {"plugin"}]

\* the installer's own config hook (registers agents and commands)
InstallerConfig == [keys |-> {}, hook |-> TRUE, by |-> "installer"]

\* the hook set object plugin p returns, given the reference of its tool map
HookSetOf(p, slot, toolRef) ==
    LET t == IF p.keys = {} THEN EmptyObj ELSE ("tool" :> toolRef)
        c == IF p.hook THEN (slot :> Fn(p)) ELSE EmptyObj
    IN  t @@ c

\* plugin p's hook set allocated on the heap: the heap and its reference
AllocHookSet(h, p, slot) ==
    LET h1 == IF p.keys = {} THEN h ELSE Append(h, [n \in p.keys |-> p])
    IN  [heap |-> Append(h1, HookSetOf(p, slot, Len(h1))), ref |-> Len(h1) + 1]

\* what a hook set looks like from outside: its own fields and its tool map
Snap(h, o) ==
    [obj |-> h[o], tool |-> IF Has(h, o, "tool") THEN h[h[o]["tool"]] ELSE EmptyObj]

----------------------------------------------------------------------------
(* createInstallerPlugin: the fold, and the host invoking a merged callable *)

\* let hooks = {}; if agents or commands were loaded, hooks.config = ...
InitMerge ==
    /\ play \in CallableFields
    /\ \E withConfig \in BOOLEAN :
         heap = << IF withConfig THEN ("config" :> Fn(InstallerConfig)) ELSE EmptyObj >>
    /\ hooks = 1
    /\ merges = <<>>
    /\ inv = "none"
    /\ cont = <<>>
    /\ running = <<>>
    /\ log = <<>>
    /\ status = "idle"
    /\ LoadOff /\ InstallOff /\ AgentsOff /\ ActOff /\ ConfigOff /\ CliOff /\ ParseOff /\ SearchOff

MergeRecord(h, base, other, r) ==
    [base |-> base, other |-> other, result |-> r.result,
     baseBefore |-> Snap(h, base), otherBefore |-> Snap(h, other),
     resultAfter |-> Snap(r.heap, r.result)]

\* for (const ph of pluginHooks) hooks = mergeHooks(hooks, ph)
Merge(p) ==
    /\ status = "idle"
    /\ Len(merges) < MaxSets
    /\ LET a == AllocHookSet(heap, p, play)
           r == mergeHooks(a.heap, hooks, a.ref)
       IN  /\ heap' = r.heap
           /\ hooks' = r.result
           /\ merges' = Append(merges, MergeRecord(a.heap, hooks, a.ref, r))
    /\ UNCHANGED <<play, inv, cont, running, log, status, notMerge>>

\* mergeHooks(H, H), at most once in a run
MergeSelf ==
    /\ status = "idle"
    /\ Len(merges) < MaxSets
    /\ \A i \in DOMAIN merges : merges[i].base # merges[i].other
    /\ LET r == mergeHooks(heap, hooks, hooks)
       IN  /\ heap' = r.heap
           /\ hooks' = r.result
           /\ merges' = Append(merges, MergeRecord(heap, hooks, hooks, r))
    /\ UNCHANGED <<play, inv, cont, running, log, status, notMerge>>

\* Calling a callable runs it synchronously up to its first await: a chain
\* calls its prev at once. The work list holds what is left to call; an item
\* is awaited when the code after it waits for its promise.
RECURSIVE Unfold(_)
Unfold(c) ==
    IF c = <<>> \/ Head(c).c.k = "fn" THEN c
    ELSE LET top == Head(c)
         IN  Unfold(<< [c |-> top.c.prev, aw |-> top.c.awaitPrev],
                       [c |-> top.c.next, aw |-> top.c.awaitNext /\ top.aw] >>
                    \o Tail(c))

\* the host calls hooks[slot](input)
Invoke(slot) ==
    /\ status = "idle"
    /\ slot # "tool"
    /\ Has(heap, hooks, slot)
    /\ inv' = slot
    /\ cont' = Unfold(<< [c |-> heap[hooks][slot], aw |-> TRUE] >>)
    /\ status' = "running"
    /\ UNCHANGED <<heap, hooks, play, merges, running, log, notMerge>>

\* the next primitive callable is called once nothing awaited is pending
Start ==
    /\ status = "running"
    /\ cont # <<>>
    /\ \A i \in DOMAIN running : ~running[i].aw
    /\ running' = Append(running, [id |-> Head(cont).c.id, aw |-> Head(cont).aw])
    /\ log' = Append(log, [ev |-> "start", fn |-> Head(cont).c.id])
    /\ cont' = Unfold(Tail(cont))
    /\ UNCHANGED <<heap, hooks, play, merges, inv, status, notMerge>>

RemoveAt(s, i) == SubSeq(s, 1, i - 1) \o SubSeq(s, i + 1, Len(s))

\* a running callable's promise fulfils
Finish(i) ==
    /\ status = "running"
    /\ i \in DOMAIN running
    /\ running' = RemoveAt(running, i)
    /\ log' = Append(log, [ev |-> "end", fn |-> running[i].id])
    /\ status' = IF cont = <<>> /\ Len(running) = 1 THEN "resolved" ELSE "running"
    /\ UNCHANGED <<heap, hooks, play, merges, inv, cont, notMerge>>

\* AfterThrow had each stage been called in a try/catch of its own: the
\* stages after the failing one are still called
AfterThrowCaught(rest) == rest

\* what is left to call of a chain when an awaited stage has thrown: the
\* await rethrows out of every arrow function around it, so nothing
AfterThrow(rest) == <<>>

\* a running callable throws or its promise rejects: the await rethrows, the
\* rest of the chain is abandoned and the composite promise rejects
Fail(i) ==
    /\ status = "running"
    /\ i \in DOMAIN running
    /\ running[i].aw
    /\ running' = RemoveAt(running, i)
    /\ log' = Append(log, [ev |-> "throw", fn |-> running[i].id])
    /\ cont' = AfterThrow(cont)
    /\ status' = IF AfterThrow(cont) = <<>> THEN "rejected" ELSE "running"
    /\ UNCHANGED <<heap, hooks, play, merges, inv, notMerge>>

NextMerge ==
    \/ \E p \in Plugins : Merge(p)
    \/ MergeSelf
    \/ \E s \in CallableFields : Invoke(s)
    \/ Start
    \/ \E i \in DOMAIN running : Finish(i)
    \/ \E i \in DOMAIN running : Fail(i)

SpecMerge == InitMerge /\ [][NextMerge]_vars

\* mergeHooks on its own: the base of the first call is any hook set, one
\* with an auth hook or a callable in the field in play included
BaseCallable == Fn([keys |-> {}, hook |-> TRUE, by |-> "base"])

BaseSets(slot) ==
    {a @@ c : a \in {EmptyObj, ("auth" :> BaseCallable)},
              c \in {EmptyObj, (slot :> BaseCallable)}}

InitCompose ==
    /\ play \in CallableFields
    /\ \E b \in BaseSets(play) : heap = <<b>>
    /\ hooks = 1
    /\ merges = <<>>
    /\ inv = "none"
    /\ cont = <<>>
    /\ running = <<>>
    /\ log = <<>>
    /\ status = "idle"
    /\ LoadOff /\ InstallOff /\ AgentsOff /\ ActOff /\ ConfigOff /\ CliOff /\ ParseOff /\ SearchOff

\* hooks = mergeHooks(hooks, ph), again and again
NextCompose ==
    \/ \E p \in Plugins : Merge(p)
    \/ MergeSelf

SpecCompose == InitCompose /\ [][NextCompose]_vars

----------------------------------------------------------------------------
(* parseFrontmatter and parseValue. A string is a sequence of characters. *)

Min(S) == CHOOSE x \in S : \A y \in S : x <= y

Max(S) == CHOOSE x \in S : \A y \in S : y <= x

\* \s, among the characters of the documents modelled
Whitespace == {" ", "\t", "\n", "\r"}

\* what . does not match
LineTerminators == {"\n", "\r"}

DigitChars == {"0", "1", "2", "3", "4", "5", "6", "7", "8", "9"}

\* \w
WordChars ==
    DigitChars \cup {"_"} \cup
    {"a", "b", "c", "d", "e", "f", "g", "h", "i", "j", "k", "l", "m",
     "n", "o", "p", "q", "r", "s", "t", "u", "v", "w", "x", "y", "z"} \cup
    {"A", "B", "C", "D", "E", "F", "G", "H", "I", "J", "K", "L", "M",
     "N", "O", "P", "Q", "R", "S", "T", "U", "V", "W", "X", "Y", "Z"}

StartsWithAt(s, i, pat) ==
    i + Len(pat) - 1 <= Len(s) /\ SubSeq(s, i, i + Len(pat) - 1) = pat

\* s.startsWith(pat), s.endsWith(pat)
StartsWith(s, pat) == StartsWithAt(s, 1, pat)

EndsWith(s, pat) == Len(pat) <= Len(s) /\ StartsWithAt(s, Len(s) - Len(pat) + 1, pat)

\* s.trim()
Trim(s) ==
    LET solid == {i \in DOMAIN s : s[i] \notin Whitespace}
    IN  IF solid = {} THEN <<>> ELSE SubSeq(s, Min(solid), Max(solid))

Dashes == <<"-", "-", "-">>

\* the position after an optional \r (\r?) or an optional \n (\n?) at i
SkipCR(s, i) == IF i <= Len(s) /\ s[i] = "\r" THEN i + 1 ELSE i

SkipLF(s, i) == IF i <= Len(s) /\ s[i] = "\n" THEN i + 1 ELSE i

\* raw.match(/^---\r?\n([\s\S]*?)\r?\n---\r?\n?([\s\S]*)$/): the lazy first
\* group ends at the first position where \r?\n--- matches
FrontmatterMatch(raw) ==
    LET open   == SkipCR(raw, Len(Dashes) + 1)
        start  == open + 1
        closes == {i \in start..Len(raw) :
                     LET nl == SkipCR(raw, i)
                     IN  nl <= Len(raw) /\ raw[nl] = "\n" /\ StartsWithAt(raw, nl + 1, Dashes)}
    IN  IF ~(StartsWith(raw, Dashes) /\ open <= Len(raw) /\ raw[open] = "\n" /\ closes # {})
        THEN [matched |-> FALSE, header |-> <<>>, rest |-> <<>>]
        ELSE LET i    == Min(closes)
                 body == SkipLF(raw, SkipCR(raw, SkipCR(raw, i) + 1 + Len(Dashes)))
             IN  [matched |-> TRUE,
                  header  |-> SubSeq(raw, start, i - 1),
                  rest    |-> SubSeq(raw, body, Len(raw))]

\* s.split(/\r?\n/): line k runs from after the (k-1)th line feed to before
\* the kth, less a carriage return before that line feed
SplitLines(s) ==
    LET breaks   == {i \in DOMAIN s : s[i] = "\n"}
        Break(k) == CHOOSE b \in breaks : Cardinality({c \in breaks : c < b}) = k - 1
    IN  [k \in 1..(Cardinality(breaks) + 1) |->
            LET from == IF k = 1 THEN 1 ELSE Break(k - 1) + 1
                nl   == IF k > Cardinality(breaks) THEN Len(s) + 1 ELSE Break(k)
                stop == IF nl <= Len(s) /\ nl > from /\ s[nl - 1] = "\r" THEN nl - 2 ELSE nl - 1
            IN  SubSeq(s, from, stop)]

\* (\w[\w-]*): starting at position from: the position of the colon, or 0
KeyColon(line, from) ==
    LET stops == {i \in from..Len(line) : line[i] \notin WordChars \cup {"-"}}
        stop  == IF stops = {} THEN Len(line) + 1 ELSE Min(stops)
    IN  IF from <= Len(line) /\ line[from] \in WordChars
           /\ stop <= Len(line) /\ line[stop] = ":"
        THEN stop ELSE 0

\* :\s*(.X)$ after the colon at position colon, where the group needs at
\* least least characters: the group (\s* is greedy and gives back what the
\* group needs), or no match when a line terminator is left for the group
ValueMatch(line, colon, least) ==
    LET tail   == SubSeq(line, colon + 1, Len(line))
        solid  == {i \in DOMAIN tail : tail[i] \notin Whitespace}
        first  == IF solid = {} THEN Len(tail) + 1 ELSE Min(solid)
        from   == IF Len(tail) - first + 1 >= least THEN first ELSE Len(tail) - least + 1
        group  == SubSeq(tail, from, Len(tail))
    IN  IF from < 1 \/ \E i \in DOMAIN group : group[i] \in LineTerminators
        THEN [matched |-> FALSE, value |-> <<>>]
        ELSE [matched |-> TRUE, value |-> group]

\* line.match(/^  (\w[\w-]*):\s*(.+)$/)
IndentedMatch(line) ==
    LET colon == IF StartsWith(line, <<" ", " ">>) THEN KeyColon(line, 3) ELSE 0
        v     == IF colon = 0 THEN [matched |-> FALSE, value |-> <<>>]
                 ELSE ValueMatch(line, colon, 1)
    IN  [matched |-> v.matched,
         key     |-> IF colon = 0 THEN <<>> ELSE SubSeq(line, 3, colon - 1),
         value   |-> v.value]

\* line.match(/^(\w[\w-]*):\s*(.*)$/)
TopMatch(line) ==
    LET colon == KeyColon(line, 1)
        v     == IF colon = 0 THEN [matched |-> FALSE, value |-> <<>>]
                 ELSE ValueMatch(line, colon, 0)
    IN  [matched |-> v.matched,
         key     |-> IF colon = 0 THEN <<>> ELSE SubSeq(line, 1, colon - 1),
         value   |-> v.value]

\* the position after the digits that start at i
RECURSIVE DigitsEnd(_, _)
DigitsEnd(s, i) == IF i <= Len(s) /\ s[i] \in DigitChars THEN DigitsEnd(s, i + 1) ELSE i

SkipSign(s, i) == IF i <= Len(s) /\ s[i] \in {"+", "-"} THEN i + 1 ELSE i

\* whether Number(s) is not NaN for a string s with something in it: a
\* decimal literal (sign, digits, fraction, exponent), Infinity with a sign,
\* or an unsigned 0x, 0o or 0b literal, with white space around it
IsNumeric(s) ==
    LET t     == Trim(s)
        m     == SkipSign(t, 1)
        int   == DigitsEnd(t, m)
        dot   == int <= Len(t) /\ t[int] = "."
        frac  == IF dot THEN DigitsEnd(t, int + 1) ELSE int
        hasE  == frac <= Len(t) /\ t[frac] \in {"e", "E"}
        exp   == IF hasE THEN SkipSign(t, frac + 1) ELSE frac
        stop  == IF hasE THEN DigitsEnd(t, exp) ELSE frac
        radix == Len(t) > 2 /\ t[1] = "0" /\
                 \/ t[2] \in {"x", "X"} /\ \A i \in 3..Len(t) :
                        t[i] \in DigitChars \cup {"a", "b", "c", "d", "e", "f", "A", "B", "C", "D", "E", "F"}
                 \/ t[2] \in {"o", "O"} /\ \A i \in 3..Len(t) :
                        t[i] \in {"0", "1", "2", "3", "4", "5", "6", "7"}
                 \/ t[2] \in {"b", "B"} /\ \A i \in 3..Len(t) : t[i] \in {"0", "1"}
    IN  \/ SubSeq(t, m, Len(t)) = <<"I", "n", "f", "i", "n", "i", "t", "y">>
        \/ /\ int > m \/ (dot /\ frac > int + 1)
           /\ hasE => stop > exp
           /\ stop = Len(t) + 1
        \/ radix

\* parseValue(s); a number is kept as the text Number read
parseValue(s) ==
    IF s = <<"t", "r", "u", "e">> THEN [t |-> "boolean", v |-> <<"t", "r", "u", "e">>]
    ELSE IF s = <<"f", "a", "l", "s", "e">> THEN [t |-> "boolean", v |-> s]
    ELSE IF IsNumeric(s) /\ Trim(s) # <<>> THEN [t |-> "number", v |-> Trim(s)]
    ELSE IF \/ (StartsWith(s, <<"\"">>) /\ EndsWith(s, <<"\"">>))
            \/ (StartsWith(s, <<"'">>) /\ EndsWith(s, <<"'">>))
         THEN [t |-> "string", v |-> SubSeq(s, 2, Len(s) - 1)]
    ELSE [t |-> "string", v |-> s]

\* one turn of parseFrontmatter's loop over the header lines; st holds data,
\* currentKey (<<>> for null) and whether nested is an object (it is then
\* the object stored at data[currentKey])
HeaderLine(st, line) ==
    LET ind == IndentedMatch(line)
        top == TopMatch(line)
    IN  IF ind.matched /\ st.currentKey # <<>> /\ st.nested
        THEN [st EXCEPT !.data[st.currentKey].v = (ind.key :> parseValue(ind.value)) @@ @]
        ELSE IF ~top.matched THEN st
        ELSE IF Trim(top.value) = <<>>
        THEN [data |-> (top.key :> [t |-> "map", v |-> EmptyObj]) @@ st.data,
              currentKey |-> top.key, nested |-> TRUE]
        ELSE [data |-> (top.key :> parseValue(Trim(top.value))) @@ st.data,
              currentKey |-> top.key, nested |-> FALSE]

\* the loop over the header lines from line i on; the state after a line is
\* a value before the next line is looked at
RECURSIVE HeaderLines(_, _, _)
HeaderLines(st, lines, i) ==
    IF i > Len(lines) THEN st
    ELSE CHOOSE last \in {HeaderLines(next, lines, i + 1) : next \in {HeaderLine(st, lines[i])}} : TRUE

\* parseFrontmatter(raw)
parseFrontmatter(raw) ==
    CHOOSE parsed \in
        {IF ~match.matched THEN [data |-> EmptyObj, content |-> raw]
         ELSE [data    |-> HeaderLines([data |-> EmptyObj, currentKey |-> <<>>, nested |-> FALSE],
                                       SplitLines(match.header), 1).data,
               content |-> match.rest] :
         match \in {FrontmatterMatch(raw)}} : TRUE

----------------------------------------------------------------------------
(* loadPlugins: the plugin module executor *)

\* how many entries the plugins directory holds
MaxModules == 2

\* the export names of a plugin module (Object.values lists them in key order)
ExportNames == <<"a", "b">>

\* what a module can export under a name: a function (by identity) or
\* something that is no function
ExportValues == {[kind |-> "fn", id |-> "f"], [kind |-> "fn", id |-> "g"], [kind |-> "value", id |-> "v"]}

\* a module namespace: some of the export names, each with a value
Namespaces == UNION {[ns -> ExportValues] : ns \in SUBSET Range(ExportNames)}

\* a directory entry: whether its name ends in .ts or .js, whether importing
\* it succeeds, and the namespace the import yields
DirEntries ==
    {[module |-> FALSE, loads |-> FALSE, exports |-> EmptyObj]}
    \cup {[module |-> TRUE, loads |-> FALSE, exports |-> EmptyObj]}
    \cup {[module |-> TRUE, loads |-> TRUE, exports |-> n] : n \in Namespaces}

PluginDirs ==
    {[exists |-> FALSE, entries |-> <<>>]}
    \cup {[exists |-> TRUE, entries |-> d] : d \in UNION {[1..n -> DirEntries] : n \in 0..MaxModules}}

\* Object.values(mod)
ValuesOf(mod) ==
    LET present == SelectSeq(ExportNames, LAMBDA n : n \in DOMAIN mod)
    IN  [i \in DOMAIN present |-> mod[present[i]]]

\* for (const entry of fs.readdirSync(dir)): the loop from entry i up to its
\* next await, `await import(...)`, or to the return
RECURSIVE ScanEntries(_, _)
ScanEntries(dir, i) ==
    IF i > Len(dir) THEN [lpc |-> "done", entry |-> i]
    ELSE IF ~dir[i].module THEN ScanEntries(dir, i + 1)
    ELSE [lpc |-> "import", entry |-> i]

\* ImportsAt had the import of the entry after e been started along with e's
ImportsAhead(e, done) ==
    IF e.lpc # "import" THEN done
    ELSE IF e.entry < Len(pluginDir.entries) /\ pluginDir.entries[e.entry + 1].module
    THEN done \o <<e.entry, e.entry + 1>>
    ELSE Append(done, e.entry)

\* the imports started so far, once the loop has moved to position e
ImportsAt(e, done) == IF e.lpc = "import" THEN Append(done, e.entry) ELSE done

\* typeof fn !== "function" || seen.has(fn)
Skipped(fn, seenFns) == fn.kind # "fn" \/ fn.id \in seenFns

\* for (const fn of Object.values(mod)): the index of the next export at or
\* after x that is called, or 0 when the loop ends
RECURSIVE ScanExports(_, _, _)
ScanExports(vals, x, seenFns) ==
    IF x > Len(vals) THEN 0
    ELSE IF Skipped(vals[x], seenFns) THEN ScanExports(vals, x + 1, seenFns)
    ELSE x

\* the state after the synchronous code that walks the exports of the
\* current module from export x on, having seen seenFns: the next callable
\* is added to seen and called, or the next entry is scanned
AfterExport(x, seenFns) ==
    LET vals == ValuesOf(pluginDir.entries[entry].exports)
        nx   == ScanExports(vals, x, seenFns)
    IN  IF nx = 0
        THEN LET e == ScanEntries(pluginDir.entries, entry + 1)
             IN  /\ lpc' = e.lpc
                 /\ entry' = e.entry
                 /\ expIdx' = 0
                 /\ seen' = seenFns
                 /\ imports' = ImportsAt(e, imports)
                 /\ calls' = calls
        ELSE /\ lpc' = "call"
             /\ entry' = entry
             /\ expIdx' = nx
             /\ imports' = imports
             /\ seen' = seenFns \cup {vals[nx].id}
             /\ calls' = Append(calls, [fn |-> vals[nx].id, entry |-> entry])

\* catch (err) { console.warn(...) }: the rest of the module is given up
Caught ==
    LET e == ScanEntries(pluginDir.entries, entry + 1)
    IN  /\ warnings' = Append(warnings, entry)
        /\ lpc' = e.lpc
        /\ entry' = e.entry
        /\ expIdx' = 0
        /\ imports' = ImportsAt(e, imports)

\* loadPlugins is called: if the directory is missing it returns [], else it
\* runs to its first await
InitLoad ==
    /\ pluginDir \in PluginDirs
    /\ LET e == IF ~pluginDir.exists THEN [lpc |-> "done", entry |-> 0]
                ELSE ScanEntries(pluginDir.entries, 1)
       IN  lpc = e.lpc /\ entry = e.entry /\ imports = ImportsAt(e, <<>>)
    /\ expIdx = 0
    /\ seen = {}
    /\ hooksList = <<>>
    /\ calls = <<>>
    /\ warnings = <<>>
    /\ MergeOff /\ InstallOff /\ AgentsOff /\ ActOff /\ ConfigOff /\ CliOff /\ ParseOff /\ SearchOff

\* await import(...) fulfils: const seen = new Set(); the exports are walked
ImportFulfilled ==
    /\ lpc = "import"
    /\ pluginDir.entries[entry].loads
    /\ AfterExport(1, {})
    /\ UNCHANGED <<pluginDir, hooksList, warnings, notLoad>>

\* await import(...) rejects
ImportRejected ==
    /\ lpc = "import"
    /\ ~pluginDir.entries[entry].loads
    /\ Caught
    /\ UNCHANGED <<pluginDir, seen, hooksList, calls, notLoad>>

\* await fn(input) fulfils with a hook set (truthy) or with nothing
CallReturns(truthy) ==
    /\ lpc = "call"
    /\ hooksList' = IF truthy THEN Append(hooksList, calls[Len(calls)]) ELSE hooksList
    /\ AfterExport(expIdx + 1, seen)
    /\ UNCHANGED <<pluginDir, warnings, notLoad>>

\* fn(input) throws, or its promise rejects
CallThrows ==
    /\ lpc = "call"
    /\ Caught
    /\ UNCHANGED <<pluginDir, seen, hooksList, calls, notLoad>>

NextLoad ==
    \/ ImportFulfilled
    \/ ImportRejected
    \/ \E truthy \in BOOLEAN : CallReturns(truthy)
    \/ CallThrows

SpecLoad == InitLoad /\ [][NextLoad]_vars

----------------------------------------------------------------------------
(* installExtensions and copyDir *)

\* how many entries options.dirs has when it is given
MaxDirs == 2

\* how many times the installer runs against the same project
MaxPasses == 2

DEFAULT_DIRS == <<"agents", "commands", "plugins", "skills", "tools", "themes">>

\* the kinds a caller names in options.dirs
Kinds == {"agents", "commands", "plugins"}

\* the files a package may ship under opencode/
SourcePaths ==
    { <<"agents", "a.md">>, <<"agents", "sub", "b.md">>,
      <<"commands", "bar.md">>, <<"plugins", "p.ts">> }

\* the files a project may already have under .opencode/: files of the same
\* paths, and a file of the user's own
DestPaths == SourcePaths \cup { <<"commands", "mine.md">> }

\* directory entry names in the order readdirSync lists them
EntryNames == <<"a.md", "agents", "b.md", "bar.md", "commands", "mine.md", "p.ts", "plugins", "sub">>

IsUnder(path, dir) == Len(path) > Len(dir) /\ SubSeq(path, 1, Len(dir)) = dir

\* fs.existsSync(dir) / entry.isDirectory() in a tree of files
IsDirectory(tree, dir) == \E f \in tree : IsUnder(f, dir)

\* fs.readdirSync(dir)
ReadDir(tree, dir) ==
    SelectSeq(EntryNames,
              LAMBDA n : \E f \in tree : f = Append(dir, n) \/ IsUnder(f, Append(dir, n)))

\* the directories a file lies in
DirsOf(f) == {SubSeq(f, 1, n) : n \in 1..(Len(f) - 1)}

\* a condition with the negation lost
SkipsWhenOverwriting(ow, exists) == ow /\ exists

\* if (!ctx.overwrite && exists)
Skips(ow, exists) == ~ow /\ exists

\* the file branch of copyDir's loop for the file at relative path f
CopyFile(f, ctx) ==
    LET exists == f \in DOMAIN ctx.files
    IN  IF Skips(ctx.overwrite, exists)
        THEN [ctx EXCEPT !.skipped = Append(@, f)]
        ELSE [ctx EXCEPT !.files = (f :> "pkg") @@ @,
                         !.dirs = @ \cup DirsOf(f),
                         !.copied = Append(@, f),
                         !.created = IF exists THEN @ ELSE Append(@, f)]

\* copyDir(src, dest, ctx) for the directory at relative path dir
RECURSIVE copyDir(_, _, _)
RECURSIVE CopyEntries(_, _, _, _)
CopyEntries(tree, dir, names, ctx) ==
    IF names = <<>> THEN ctx
    ELSE LET e == Append(dir, Head(names))
             c == IF IsDirectory(tree, e) THEN copyDir(tree, e, ctx)
                  ELSE IF e \in tree THEN CopyFile(e, ctx)
                  ELSE ctx
         IN  CopyEntries(tree, dir, Tail(names), c)

copyDir(tree, dir, ctx) ==
    CopyEntries(tree, dir, ReadDir(tree, dir), [ctx EXCEPT !.dirs = @ \cup {dir}])

\* for (const dir of dirs) { if (!fs.existsSync(src)) continue; copyDir(...) }
RECURSIVE InstallDirs(_, _, _)
InstallDirs(tree, ds, ctx) ==
    IF ds = <<>> THEN ctx
    ELSE InstallDirs(tree, Tail(ds),
                     IF IsDirectory(tree, <<Head(ds)>>) THEN copyDir(tree, <<Head(ds)>>, ctx)
                     ELSE ctx)

\* the lists a caller passes as options.dirs (a kind may be named twice), and
\* the default
DirLists == {DEFAULT_DIRS} \cup UNION {[1..n -> Kinds] : n \in 0..MaxDirs}

InitInstall ==
    /\ source \in SUBSET SourcePaths
    /\ \E present \in SUBSET DestPaths : dest = [f \in present |-> "user"]
    /\ destDirs = UNION {DirsOf(f) : f \in DOMAIN dest}
    /\ dirs \in DirLists
    /\ overwrite \in BOOLEAN
    /\ report = [copied |-> <<>>, skipped |-> <<>>, created |-> <<>>]
    /\ destBefore = dest
    /\ passes = 0
    /\ MergeOff /\ LoadOff /\ AgentsOff /\ ActOff /\ ConfigOff /\ CliOff /\ ParseOff /\ SearchOff

\* installExtensions(options)
InstallExtensions ==
    /\ passes < MaxPasses
    /\ LET ctx0 == [overwrite |-> overwrite, files |-> dest, dirs |-> destDirs,
                    copied |-> <<>>, skipped |-> <<>>, created |-> <<>>]
           ctx  == IF source = {} THEN ctx0 ELSE InstallDirs(source, dirs, ctx0)
       IN  /\ dest' = ctx.files
           /\ destDirs' = ctx.dirs
           /\ report' = [copied |-> ctx.copied, skipped |-> ctx.skipped, created |-> ctx.created]
    /\ destBefore' = dest
    /\ passes' = passes + 1
    /\ UNCHANGED <<source, dirs, overwrite, notInstall>>

NextInstall == InstallExtensions

SpecInstall == InitInstall /\ [][NextInstall]_vars

----------------------------------------------------------------------------
(* loadAgents and loadCommands *)

MdExt == <<".", "m", "d">>

\* the key the body of the document is stored under
PromptKey == <<"p", "r", "o", "m", "p", "t">>

TemplateKey == <<"t", "e", "m", "p", "l", "a", "t", "e">>

\* name.endsWith(".md")
IsMarkdown(name) == EndsWith(name, MdExt)

\* path.basename(name, ".md")
Basename(name) ==
    IF IsMarkdown(name) /\ Len(name) > Len(MdExt)
    THEN SubSeq(name, 1, Len(name) - Len(MdExt)) ELSE name

\* the markdown files a package may ship in one directory, in the order
\* readdirSync lists them, each with the document it holds
MdFiles ==
    << [name |-> <<"a", ".", "m", "d">>, raw |-> <<"-", "-", "-", "\n", "d", "e", "s", "c", "r", "i", "p", "t", "i", "o", "n", ":", " ", "o", "n", "e", "\n", "m", "o", "d", "e", ":", " ", "a", "l", "l", "\n", "-", "-", "-", "\n", "F", "i", "r", "s", "t", "\n">>],
       [name |-> <<"b", ".", "m", "d">>, raw |-> <<"S", "e", "c", "o", "n", "d", "\n">>],
       [name |-> <<"c", ".", "m", "d">>, raw |-> <<"-", "-", "-", "\r", "\n", "t", "o", "o", "l", "s", ":", "\r", "\n", " ", " ", "b", "a", "s", "h", ":", " ", "t", "r", "u", "e", "\r", "\n", "-", "-", "-", "\r", "\n", "\r", "\n", "T", "h", "i", "r", "d">>] >>

\* what can be at a file's path: nothing, a file readFileSync throws on, or
\* a file that is read
FileStates == {"absent", "unreadable", "readable"}

\* fs.readdirSync(dir, { withFileTypes: true }): the markdown files that are
\* there, and possibly a directory whose name ends in .md and a file that is
\* no markdown
EntriesOf(dir) ==
    LET files  == [i \in DOMAIN MdFiles |->
                     [name |-> MdFiles[i].name, isFile |-> TRUE,
                      readable |-> dir.files[i] = "readable", raw |-> MdFiles[i].raw,
                      present |-> dir.files[i] # "absent"]]
        others == << [name |-> <<"d", ".", "m", "d">>, isFile |-> FALSE, readable |-> FALSE,
                      raw |-> <<>>, present |-> dir.withDir],
                     [name |-> <<"n", "o", "t", "e", "s", ".", "t", "x", "t">>, isFile |-> TRUE, readable |-> TRUE,
                      raw |-> <<"-", "-", "-", "\n", "x", ":", " ", "1", "\n", "-", "-", "-", "\n", "N">>, present |-> dir.withOther] >>
        Present(e) == e.present
    IN  SelectSeq(files \o others, Present)

\* the agents/ or commands/ directory of the package: whether it exists and
\* what is in it
MdDirs ==
    {[exists |-> FALSE, files |-> [i \in DOMAIN MdFiles |-> "absent"],
      withDir |-> FALSE, withOther |-> FALSE]} \cup
    [exists : {TRUE}, files : [DOMAIN MdFiles -> FileStates],
     withDir : BOOLEAN, withOther : BOOLEAN]

\* AfterFailure had the try been around the whole loop: the failure ends it
AfterFailureStop(entries, i) == Len(entries) + 1

\* the catch inside the loop: the loop goes on with the next entry
AfterFailure(entries, i) == i + 1

\* the loop over the directory entries; acc holds result and the warnings
\* one turn of the loop, for the entry e at position i: the position of the
\* next turn, and result and the warnings after this one
LoadEntry(e, entries, field, i, acc) ==
    IF ~e.isFile \/ ~IsMarkdown(e.name)
    THEN [i |-> i + 1, acc |-> acc]
    ELSE IF ~e.readable
    THEN [i |-> AfterFailure(entries, i), acc |-> [acc EXCEPT !.warnings = Append(@, e.name)]]
    ELSE CHOOSE turn \in
             {[i   |-> i + 1,
               acc |-> [acc EXCEPT !.result =
                          (Basename(e.name) :>
                              ((field :> [t |-> "string", v |-> Trim(parsed.content)])
                               @@ parsed.data)) @@ @]] :
                 parsed \in {parseFrontmatter(e.raw)}} : TRUE

\* the loop over the directory entries; acc holds result and the warnings
RECURSIVE LoadEntries(_, _, _, _)
LoadEntries(entries, field, i, acc) ==
    IF i > Len(entries) THEN acc
    ELSE CHOOSE last \in
             {LoadEntries(entries, field, turn.i, turn.acc) :
                 turn \in {LoadEntry(e, entries, field, i, acc) : e \in {entries[i]}}} : TRUE

loadAgents(dir) ==
    IF ~dir.exists THEN [result |-> EmptyObj, warnings |-> <<>>]
    ELSE LoadEntries(EntriesOf(dir), PromptKey, 1, [result |-> EmptyObj, warnings |-> <<>>])

loadCommands(dir) ==
    IF ~dir.exists THEN [result |-> EmptyObj, warnings |-> <<>>]
    ELSE LoadEntries(EntriesOf(dir), TemplateKey, 1, [result |-> EmptyObj, warnings |-> <<>>])

InitAgents ==
    /\ mdDirs \in [agents : MdDirs, commands : MdDirs]
    /\ loaded = [agents   |-> [done |-> FALSE, result |-> EmptyObj],
                 commands |-> [done |-> FALSE, result |-> EmptyObj]]
    /\ mdWarnings = <<>>
    /\ MergeOff /\ LoadOff /\ InstallOff /\ ActOff /\ ConfigOff /\ CliOff /\ ParseOff /\ SearchOff

\* const agents = loadAgents(sourceDir, options.name)
LoadAgents ==
    /\ mdDirs # <<>>
    /\ ~loaded.agents.done
    /\ LET r == loadAgents(mdDirs.agents)
       IN  /\ loaded' = [loaded EXCEPT !.agents = [done |-> TRUE, result |-> r.result]]
           /\ mdWarnings' = mdWarnings \o
                 [i \in DOMAIN r.warnings |-> [kind |-> "agent", name |-> r.warnings[i]]]
    /\ UNCHANGED <<mdDirs, notAgents>>

\* const commands = loadCommands(sourceDir, options.name)
LoadCommands ==
    /\ mdDirs # <<>>
    /\ loaded.agents.done /\ ~loaded.commands.done
    /\ LET r == loadCommands(mdDirs.commands)
       IN  /\ loaded' = [loaded EXCEPT !.commands = [done |-> TRUE, result |-> r.result]]
           /\ mdWarnings' = mdWarnings \o
                 [i \in DOMAIN r.warnings |-> [kind |-> "command", name |-> r.warnings[i]]]
    /\ UNCHANGED <<mdDirs, notAgents>>

NextAgents == LoadAgents \/ LoadCommands

SpecAgents == InitAgents /\ [][NextAgents]_vars

----------------------------------------------------------------------------
(* createInstallerPlugin: the plugin a package exports, activated by the host *)

PluginModule == <<"plugins", "p.ts">>

\* the files of the packages and projects an activation is run on
ActivationPaths == { <<"agents", "a.md">>, <<"commands", "bar.md">>, PluginModule }

\* options.dirs of an installer plugin
ActivationDirs == {DEFAULT_DIRS} \cup {<<k>> : k \in Kinds}

\* the package's plugins/ directory as loadPlugins reads it
PluginDirOf(tree) ==
    IF PluginModule \in tree
    THEN {[exists |-> TRUE, entries |-> <<e>>] : e \in {d \in DirEntries : d.module}}
    ELSE {[exists |-> FALSE, entries |-> <<>>]}

\* whether loadAgents or loadCommands gives a definition, so that
\* hooks.config is set (the files of the package are read and parsed)
HasDefinitions(tree, kinds) ==
    \/ "agents" \in kinds /\ <<"agents", "a.md">> \in tree
    \/ "commands" \in kinds /\ <<"commands", "bar.md">> \in tree

InitActivate ==
    /\ source \in SUBSET ActivationPaths
    /\ \E present \in SUBSET ActivationPaths : dest = [f \in present |-> "user"]
    /\ destDirs = UNION {DirsOf(f) : f \in DOMAIN dest}
    /\ dirs \in ActivationDirs
    /\ overwrite \in BOOLEAN
    /\ report = [copied |-> <<>>, skipped |-> <<>>, created |-> <<>>]
    /\ destBefore = dest
    /\ passes = 0
    /\ pluginDir \in PluginDirOf(source)
    /\ lpc = "off"
    /\ entry = 0
    /\ expIdx = 0
    /\ seen = {}
    /\ hooksList = <<>>
    /\ imports = <<>>
    /\ calls = <<>>
    /\ warnings = <<>>
    /\ act = [pc |-> "start", returned |-> <<>>]
    /\ MergeOff /\ AgentsOff /\ ConfigOff /\ CliOff /\ ParseOff /\ SearchOff

\* the plugin function up to its first await after installExtensions: the
\* install pass, the early return, the agent and command loaders, and
\* loadPlugins up to its first import (or all of it when nothing is imported)
Activate ==
    /\ act.pc = "start"
    /\ LET ctx0 == [overwrite |-> overwrite, files |-> dest, dirs |-> destDirs,
                    copied |-> <<>>, skipped |-> <<>>, created |-> <<>>]
           ctx  == IF source = {} THEN ctx0 ELSE InstallDirs(source, dirs, ctx0)
           e    == IF ~pluginDir.exists THEN [lpc |-> "done", entry |-> 0]
                   ELSE ScanEntries(pluginDir.entries, 1)
           base == [config |-> HasDefinitions(source, Range(dirs)), merged |-> <<>>]
       IN  /\ dest' = ctx.files
           /\ destDirs' = ctx.dirs
           /\ report' = [copied |-> ctx.copied, skipped |-> ctx.skipped, created |-> ctx.created]
           /\ IF ctx.created = <<>>
              THEN /\ act' = [pc |-> "returned", returned |-> [config |-> FALSE, merged |-> <<>>]]
                   /\ UNCHANGED <<lpc, entry, imports>>
              ELSE IF "plugins" \notin Range(dirs)
              THEN /\ act' = [pc |-> "returned", returned |-> base]
                   /\ UNCHANGED <<lpc, entry, imports>>
              ELSE /\ act' = [pc |-> "loading", returned |-> base]
                   /\ lpc' = e.lpc
                   /\ entry' = e.entry
                   /\ imports' = ImportsAt(e, <<>>)
    /\ destBefore' = dest
    /\ passes' = passes + 1
    /\ UNCHANGED <<source, dirs, overwrite, pluginDir, expIdx, seen, hooksList, calls,
                   warnings, mergeVars, agentVars, configVars, cliVars, parseVars,
                   searchVars>>

\* loadPlugins has returned: the hook sets are folded with mergeHooks into
\* hooks, which is returned
ReturnHooks ==
    /\ act.pc = "loading"
    /\ lpc = "done"
    /\ act' = [pc |-> "returned", returned |-> [act.returned EXCEPT !.merged = hooksList]]
    /\ UNCHANGED notAct

NextActivate ==
    \/ Activate
    \/ ImportFulfilled
    \/ ImportRejected
    \/ \E truthy \in BOOLEAN : CallReturns(truthy)
    \/ CallThrows
    \/ ReturnHooks

SpecActivate == InitActivate /\ [][NextActivate]_vars

\* The installer plugin over several sessions of the host, with the default
\* overwrite: false. The project's files before the first session, and the
\* options.dirs of the plugin (a kind may be named twice):
SessionDestPaths == { <<"agents", "a.md">>, <<"agents", "sub", "b.md">>, PluginModule }

SessionDirs == { DEFAULT_DIRS, <<"agents", "agents">>, <<"agents", "commands">>, <<"plugins">> }

InitSessions ==
    /\ source \in SUBSET SourcePaths
    /\ \E present \in SUBSET SessionDestPaths : dest = [f \in present |-> "user"]
    /\ destDirs = UNION {DirsOf(f) : f \in DOMAIN dest}
    /\ dirs \in SessionDirs
    /\ overwrite = FALSE
    /\ report = [copied |-> <<>>, skipped |-> <<>>, created |-> <<>>]
    /\ destBefore = dest
    /\ passes = 0
    /\ pluginDir \in PluginDirOf(source)
    /\ lpc = "off"
    /\ entry = 0
    /\ expIdx = 0
    /\ seen = {}
    /\ hooksList = <<>>
    /\ imports = <<>>
    /\ calls = <<>>
    /\ warnings = <<>>
    /\ act = [pc |-> "start", returned |-> <<>>]
    /\ MergeOff /\ AgentsOff /\ ConfigOff /\ CliOff /\ ParseOff /\ SearchOff

\* the host starts its next session and calls the plugin function again, on
\* the same package and on the project as the last session left it
NextSession ==
    /\ act.pc = "returned"
    /\ passes < MaxPasses
    /\ act' = [pc |-> "start", returned |-> <<>>]
    /\ lpc' = "off"
    /\ entry' = 0
    /\ expIdx' = 0
    /\ seen' = {}
    /\ hooksList' = <<>>
    /\ imports' = <<>>
    /\ calls' = <<>>
    /\ warnings' = <<>>
    /\ UNCHANGED <<pluginDir, installVars, mergeVars, agentVars, configVars, cliVars,
                   parseVars, searchVars>>

NextSessions ==
    \/ NextActivate
    \/ NextSession

SpecSessions == InitSessions /\ [][NextSessions]_vars

----------------------------------------------------------------------------
(* opencode.json: readConfig, writeConfig, addPlugin, removePlugin *)

\* the package names given to the commands
Packages == {"pkg", "a", "b"}

\* the lists without a repeated entry
PluginLists ==
    {l \in UNION {[1..n -> Packages] : n \in 0..Cardinality(Packages)} :
        \A i, j \in DOMAIN l : i # j => l[i] # l[j]}

\* what readConfig returns when there is no file or JSON.parse throws: {}
EmptyConfig == [schema |-> FALSE, hasPlugin |-> FALSE, plugin |-> <<>>]

\* opencode.json: missing, not parseable, or an object with or without
\* $schema and with or without a plugin list
Manifests ==
    {[file |-> f, schema |-> FALSE, hasPlugin |-> FALSE, plugin |-> <<>>] :
        f \in {"missing", "invalid"}}
    \cup [file : {"ok"}, schema : BOOLEAN, hasPlugin : {FALSE}, plugin : {<<>>}]
    \cup [file : {"ok"}, schema : BOOLEAN, hasPlugin : {TRUE}, plugin : PluginLists]

readConfig(m) ==
    IF m.file = "ok"
    THEN [schema |-> m.schema, hasPlugin |-> m.hasPlugin, plugin |-> m.plugin]
    ELSE EmptyConfig

\* the file after writeConfig(dir, config)
writeConfig(config) ==
    [file |-> "ok", schema |-> config.schema, hasPlugin |-> config.hasPlugin,
     plugin |-> config.plugin]

\* config.plugin ?? []
PluginsOf(config) == IF config.hasPlugin THEN config.plugin ELSE <<>>

\* plugins.indexOf(packageName), 0 for -1
IndexOf(plugins, p) ==
    IF p \in Range(plugins) THEN Min({i \in DOMAIN plugins : plugins[i] = p}) ELSE 0

\* plugins.splice(idx, 1)
Splice(plugins, idx) ==
    SubSeq(plugins, 1, idx - 1) \o SubSeq(plugins, idx + 1, Len(plugins))

\* addPlugin without its test of plugins.includes(packageName)
addPluginAlways(m, p) ==
    LET config == readConfig(m)
    IN  [ret |-> TRUE, wrote |-> TRUE,
         manifest |-> writeConfig([config EXCEPT !.plugin = Append(PluginsOf(config), p),
                                                 !.hasPlugin = TRUE, !.schema = TRUE])]

\* addPlugin(dir, packageName): what it returns, whether it wrote the file,
\* and the file afterwards
addPlugin(m, p) ==
    LET config  == readConfig(m)
        plugins == PluginsOf(config)
    IN  IF p \in Range(plugins) THEN [ret |-> FALSE, wrote |-> FALSE, manifest |-> m]
        ELSE [ret |-> TRUE, wrote |-> TRUE,
              manifest |-> writeConfig([config EXCEPT !.plugin = Append(plugins, p),
                                                      !.hasPlugin = TRUE, !.schema = TRUE])]

\* removePlugin(dir, packageName)
removePlugin(m, p) ==
    LET config  == readConfig(m)
        plugins == PluginsOf(config)
        idx     == IndexOf(plugins, p)
    IN  IF idx = 0 THEN [ret |-> FALSE, wrote |-> FALSE, manifest |-> m]
        ELSE [ret |-> TRUE, wrote |-> TRUE,
              manifest |-> writeConfig([config EXCEPT !.plugin = Splice(plugins, idx),
                                                      !.hasPlugin = TRUE])]

InitConfig ==
    /\ manifest \in Manifests
    /\ lastOp = <<>>
    /\ lastCall = [p \in Packages |-> "none"]
    /\ MergeOff /\ LoadOff /\ InstallOff /\ AgentsOff /\ ActOff /\ CliOff /\ ParseOff /\ SearchOff

AddPlugin(p) ==
    /\ lastCall # <<>>
    /\ LET r == addPlugin(manifest, p)
       IN  /\ manifest' = r.manifest
           /\ lastOp' = [op |-> "add", p |-> p, ret |-> r.ret, wrote |-> r.wrote,
                         before |-> manifest]
    /\ lastCall' = [lastCall EXCEPT ![p] = "add"]
    /\ UNCHANGED notConfig

RemovePlugin(p) ==
    /\ lastCall # <<>>
    /\ LET r == removePlugin(manifest, p)
       IN  /\ manifest' = r.manifest
           /\ lastOp' = [op |-> "remove", p |-> p, ret |-> r.ret, wrote |-> r.wrote,
                         before |-> manifest]
    /\ lastCall' = [lastCall EXCEPT ![p] = "remove"]
    /\ UNCHANGED notConfig

NextConfig ==
    \/ \E p \in Packages : AddPlugin(p)
    \/ \E p \in Packages : RemovePlugin(p)

SpecConfig == InitConfig /\ [][NextConfig]_vars

----------------------------------------------------------------------------
(* The add and remove commands *)

\* how many commands are run on the project, one after the other
MaxCommands == 2

EXTENSION_DIRS == <<"agents", "commands", "plugins", "skills", "tools", "themes">>

\* the package the commands are given
ThePackage == "pkg"

\* the files the package may ship under opencode/, and the files the project
\* may have under .opencode/ before the package is added
CliSourcePaths == { <<"agents", "a.md">>, <<"agents", "sub", "b.md">>, <<"commands", "bar.md">> }

CliDestPaths == { <<"agents", "a.md">>, <<"commands", "bar.md">>, <<"commands", "mine.md">> }

CliManifests == {m \in Manifests : Range(m.plugin) \subseteq {ThePackage, "a"}}

\* fs.readdirSync(dest).length === 0
IsEmptyDir(ctx, dir) ==
    /\ ~\E f \in DOMAIN ctx.files : IsUnder(f, dir)
    /\ ~\E d \in ctx.dirs : IsUnder(d, dir)

\* removeMatchingFiles(src, dest) for the directory at relative path dir
RECURSIVE removeMatchingFiles(_, _, _)
RECURSIVE RemoveEntries(_, _, _, _)
RemoveEntries(tree, dir, names, ctx) ==
    IF names = <<>> THEN ctx
    ELSE LET e == Append(dir, Head(names))
             c == IF IsDirectory(tree, e) THEN removeMatchingFiles(tree, e, ctx)
                  ELSE IF e \in tree /\ e \in DOMAIN ctx.files
                  THEN [ctx EXCEPT !.files = [f \in DOMAIN @ \ {e} |-> @[f]],
                                   !.count = @ + 1]
                  ELSE ctx
         IN  RemoveEntries(tree, dir, Tail(names), c)

removeMatchingFiles(tree, dir, ctx) ==
    IF ~IsDirectory(tree, dir) \/ dir \notin ctx.dirs THEN ctx
    ELSE LET c == RemoveEntries(tree, dir, ReadDir(tree, dir), ctx)
         IN  IF dir \in c.dirs /\ IsEmptyDir(c, dir)
             THEN [c EXCEPT !.dirs = @ \ {dir}]
             ELSE c

\* removeAssets(sourceDir, targetBase): the loop over EXTENSION_DIRS
RECURSIVE removeAssets(_, _, _)
removeAssets(tree, ds, ctx) ==
    IF ds = <<>> THEN ctx
    ELSE removeAssets(tree, Tail(ds), removeMatchingFiles(tree, <<Head(ds)>>, ctx))

\* the catch around npm install with the failure passed on as a warning
InstallFailureWarns(ok) == FALSE

\* the catch around execSync("npm install ..."): throw new Error(...)
InstallFailureThrows(ok) == ~ok

\* the catch around execSync("npm uninstall ..."): console.warn(...), and the
\* command goes on
UninstallFailureThrows(ok) == FALSE

InitCli ==
    /\ source \in SUBSET CliSourcePaths
    /\ \E present \in SUBSET CliDestPaths : dest = [f \in present |-> "user"]
    /\ destDirs = UNION {DirsOf(f) : f \in DOMAIN dest}
    /\ dirs = EXTENSION_DIRS
    /\ overwrite = FALSE
    /\ report = [copied |-> <<>>, skipped |-> <<>>, created |-> <<>>]
    /\ destBefore = dest
    /\ passes = 0
    /\ manifest \in CliManifests
    /\ lastOp = <<>>
    /\ lastCall = <<>>
    /\ installed = FALSE
    /\ cli = [cmd |-> "none", pc |-> "idle", outcome |-> "none", n |-> 0,
              dest0 |-> dest, manifest0 |-> manifest]
    /\ steps = <<>>
    /\ MergeOff /\ LoadOff /\ AgentsOff /\ ActOff /\ ParseOff /\ SearchOff

Step(name, ok) == [n |-> cli.n + 1, step |-> name, ok |-> ok]

\* add(packageName, dir) up to its await of installExtensions, or to its end
\* when it throws or the package has no opencode/ directory
AddStart(ok, resolves) ==
    /\ cli.pc \in {"idle", "done"}
    /\ cli.n < MaxCommands
    /\ LET started  == [cmd |-> "add", pc |-> "done", outcome |-> "rejected", n |-> cli.n + 1,
                        dest0 |-> dest, manifest0 |-> manifest]
           npm      == Step("npm install", ok)
           rootOk   == installed \/ (ok /\ resolves)
           ctx0     == [overwrite |-> FALSE, files |-> dest, dirs |-> destDirs,
                        copied |-> <<>>, skipped |-> <<>>, created |-> <<>>]
           ctx      == InstallDirs(source, EXTENSION_DIRS, ctx0)
           reg      == addPlugin(manifest, ThePackage)
       IN  IF InstallFailureThrows(ok)
           THEN /\ cli' = started
                /\ steps' = Append(steps, npm)
                /\ UNCHANGED <<installed, dest, destDirs, report, destBefore, passes, manifest>>
           ELSE IF ~rootOk
           THEN /\ cli' = started
                /\ steps' = Append(steps, npm)
                /\ UNCHANGED <<installed, dest, destDirs, report, destBefore, passes, manifest>>
           ELSE IF source # {}
           THEN /\ cli' = [started EXCEPT !.pc = "copied", !.outcome = "pending"]
                /\ steps' = steps \o <<npm, Step("copy", TRUE)>>
                /\ installed' = TRUE
                /\ dest' = ctx.files
                /\ destDirs' = ctx.dirs
                /\ report' = [copied |-> ctx.copied, skipped |-> ctx.skipped,
                              created |-> ctx.created]
                /\ destBefore' = dest
                /\ passes' = passes + 1
                /\ UNCHANGED manifest
           ELSE /\ cli' = [started EXCEPT !.outcome = "resolved"]
                /\ steps' = steps \o <<npm, Step("register", reg.ret)>>
                /\ installed' = TRUE
                /\ manifest' = reg.manifest
                /\ UNCHANGED <<dest, destDirs, report, destBefore, passes>>
    /\ UNCHANGED <<source, dirs, overwrite, lastOp, lastCall, mergeVars, loadVars, agentVars,
                   actVars, parseVars, searchVars>>

\* add after its await: addPlugin, and the promise resolves
AddFinish ==
    /\ cli.pc = "copied"
    /\ LET reg == addPlugin(manifest, ThePackage)
       IN  /\ manifest' = reg.manifest
           /\ steps' = Append(steps, [n |-> cli.n, step |-> "register", ok |-> reg.ret])
    /\ cli' = [cli EXCEPT !.pc = "done", !.outcome = "resolved"]
    /\ UNCHANGED <<installed, lastOp, lastCall, mergeVars, loadVars, installVars, agentVars,
                   actVars, parseVars, searchVars>>

\* remove(packageName, dir): it has no await
Remove(ok) ==
    /\ cli.pc \in {"idle", "done"}
    /\ cli.n < MaxCommands
    /\ LET hasAssets == installed /\ source # {}
           ctx0 == [files |-> dest, dirs |-> destDirs, count |-> 0]
           ctx  == IF hasAssets THEN removeAssets(source, EXTENSION_DIRS, ctx0) ELSE ctx0
           unreg == removePlugin(manifest, ThePackage)
       IN  /\ dest' = ctx.files
           /\ destDirs' = ctx.dirs
           /\ manifest' = unreg.manifest
           /\ steps' = steps \o
                 (IF hasAssets THEN <<Step("remove assets", TRUE)>> ELSE <<>>) \o
                 <<Step("unregister", unreg.ret), Step("npm uninstall", ok)>>
           /\ installed' = IF ok THEN FALSE ELSE installed
           /\ cli' = [cmd |-> "remove", pc |-> "done",
                      outcome |-> IF UninstallFailureThrows(ok) THEN "rejected" ELSE "resolved",
                      n |-> cli.n + 1, dest0 |-> dest, manifest0 |-> manifest]
    /\ destBefore' = dest
    /\ UNCHANGED <<source, dirs, overwrite, report, passes, lastOp, lastCall, mergeVars,
                   loadVars, agentVars, actVars, parseVars, searchVars>>

NextCli ==
    \/ \E ok, resolves \in BOOLEAN : AddStart(ok, resolves)
    \/ AddFinish
    \/ \E ok \in BOOLEAN : Remove(ok)

SpecCli == InitCli /\ [][NextCli]_vars

----------------------------------------------------------------------------
(* The metadata parser applied to documents and to scalars *)

\* what a document starts with
Openings ==
    { <<"-", "-", "-", "\n">>,   \* ---
      <<"-", "-", "-", "\r", "\n">>,   \* --- with a carriage return
      <<>>,   \* nothing
      <<"-", "-", "-">>,   \* --- and no line terminator
      <<"\n", "-", "-", "-", "\n">> }   \* --- on the second line

\* the header lines
HeaderTexts ==
    { <<>>,   \* nothing
      <<"k", ":", " ", "v", "\n">>,   \* k: v
      <<"k", ":", " ", "v", " ", "\r", "\n">>,   \* k: v, a space, \r\n
      <<"\n">>,   \* an empty line
      <<"n", ":", "\n", " ", " ", "a", ":", " ", "1", " ", "\n">>,   \* n: and, nested, a: 1 and a space
      <<"k", ":", " ", "I", "n", "f", "i", "n", "i", "t", "y", "\n", "q", ":", " ", "\"", "7", "\"", "\n">> }   \* k: Infinity, q: "7"

\* what follows the header lines
Closings ==
    { <<"-", "-", "-", "\n">>,   \* ---
      <<"-", "-", "-", "\r", "\n">>,   \* --- with a carriage return
      <<"-", "-", "-">>,   \* --- and no line terminator
      <<"-", "-", "-", "a", "b", "c", "\n">>,   \* ---abc
      <<>> }   \* nothing

\* the text after that
Bodies ==
    { <<>>,   \* nothing
      <<"b">>,   \* b
      <<" ", "b", " ", "\n">>,   \* b with white space around it
      <<"\n", "b", "\n">> }   \* b after an empty line

\* the documents parseFrontmatter is given: readFileSync(..., "utf8")
Documents == {o \o h \o c \o b : o \in Openings, h \in HeaderTexts, c \in Closings, b \in Bodies}

\* the scalars parseValue is given
Scalars ==
    { <<"t", "r", "u", "e">>,   \* true
      <<"f", "a", "l", "s", "e">>,   \* false
      <<"T", "r", "u", "e">>,   \* True
      <<"t", "r", "u", "e", " ">>,   \* true and a space
      <<"\"", "t", "r", "u", "e", "\"">>,   \* "true"
      <<"'", "f", "a", "l", "s", "e", "'">>,   \* 'false'
      <<"7">>,   \* 7
      <<"-", "1", ".", "5">>,   \* -1.5
      <<"1", "e", "3">>,   \* 1e3
      <<".", "5">>,   \* .5
      <<"0", "x", "1", "F">>,   \* 0x1F
      <<"\"", "7", "\"">>,   \* "7"
      <<"'", "4", "2", "'">>,   \* '42'
      <<"7", " ">>,   \* 7 and a space
      <<"I", "n", "f", "i", "n", "i", "t", "y">>,   \* Infinity
      <<"-", "I", "n", "f", "i", "n", "i", "t", "y">>,   \* -Infinity
      <<"N", "a", "N">>,   \* NaN
      <<"1", ".", "2", ".", "3">>,   \* 1.2.3
      <<"1", "2", "p", "x">>,   \* 12px
      <<"-">>,   \* -
      <<"v">>,   \* v
      <<"v", " ">>,   \* v and a space
      <<" ", "v">>,   \* a space and v
      <<"\"", "v", "\"">>,   \* "v"
      <<"'", "v", "'">>,   \* 'v'
      <<"\"", "v", "'">>,   \* "v'
      <<"\"", "v", "\"", " ">>,   \* "v" and a space
      <<"\"">>,   \* one double quote
      <<" ">>,   \* a space
      <<>>,   \* the empty string
      <<"h", "e", "l", "l", "o", " ", "w", "o", "r", "l", "d">> }   \* hello world

InitParse ==
    /\ doc \in Documents \cup Scalars
    /\ parseOut = [op |-> "none"]
    /\ MergeOff /\ LoadOff /\ InstallOff /\ AgentsOff /\ ActOff /\ ConfigOff /\ CliOff /\ SearchOff

\* parseFrontmatter(raw)
ParseFrontmatter ==
    /\ parseOut.op = "none"
    /\ parseOut' = CHOOSE out \in
           {[op |-> "parseFrontmatter", data |-> parsed.data, content |-> parsed.content] :
               parsed \in {parseFrontmatter(doc)}} : TRUE
    /\ UNCHANGED <<doc, notParse>>

\* what loadAgents and loadCommands make of a file they have read: data and
\* content from parseFrontmatter(raw), and the body content.trim()
LoadDefinition ==
    /\ parseOut.op = "none"
    /\ parseOut' = CHOOSE out \in
           {[op |-> "load", data |-> parsed.data, body |-> Trim(parsed.content)] :
               parsed \in {parseFrontmatter(doc)}} : TRUE
    /\ UNCHANGED <<doc, notParse>>

\* parseValue(s)
ParseValue ==
    /\ parseOut.op = "none"
    /\ parseOut' = [op |-> "parseValue", value |-> parseValue(doc)]
    /\ UNCHANGED <<doc, notParse>>

NextParse ==
    \/ ParseFrontmatter
    \/ LoadDefinition
    \/ ParseValue

SpecParse == InitParse /\ [][NextParse]_vars

----------------------------------------------------------------------------
(* search: the npm and the GitHub lookup *)

\* how many results a lookup returns at most
MaxResults == 2

\* the array given to Promise.allSettled: searchNpm first, searchGitHub second
SearchSources == <<"npm", "github">>

\* the names a registry can answer with
ResultNames == {"x", "y"}

\* what body.objects.map / body.items.map can return for a source
ResultLists(src) ==
    UNION {[1..n -> [name : ResultNames, source : {src}]] : n \in 0..MaxResults}

\* Promise.all in the place of Promise.allSettled: it rejects as soon as one
\* of the promises has rejected
PromiseAll(ls) ==
    IF \E src \in DOMAIN ls : ls[src].state = "rejected" THEN "rejected"
    ELSE IF \A src \in DOMAIN ls : ls[src].state = "fulfilled" THEN "fulfilled"
    ELSE "pending"

\* Promise.allSettled([...]): fulfilled once every promise has settled
PromiseAllSettled(ls) ==
    IF \A src \in DOMAIN ls : ls[src].state \in {"fulfilled", "rejected"} THEN "fulfilled"
    ELSE "pending"

\* search(query) has called searchNpm and searchGitHub, each of which has
\* called fetch, and waits for Promise.allSettled
InitSearch ==
    /\ lookups = [src \in Range(SearchSources) |-> [state |-> "fetching", value |-> <<>>, reason |-> "none"]]
    /\ settled = <<>>
    /\ found = [pc |-> "pending", results |-> <<>>, errors |-> <<>>]
    /\ MergeOff /\ LoadOff /\ InstallOff /\ AgentsOff /\ ActOff /\ ConfigOff /\ CliOff /\ ParseOff

\* fetch(url) fulfils: with res.ok the lookup goes on to res.json(), and it
\* throws otherwise
FetchResponds(src, ok) ==
    /\ lookups[src].state = "fetching"
    /\ lookups' = [lookups EXCEPT ![src].state = IF ok THEN "reading" ELSE "rejected",
                                  ![src].reason = IF ok THEN "none" ELSE "search failed"]
    /\ settled' = IF ok THEN settled ELSE Append(settled, src)
    /\ UNCHANGED <<found, notSearch>>

\* fetch(url) rejects
FetchFails(src) ==
    /\ lookups[src].state = "fetching"
    /\ lookups' = [lookups EXCEPT ![src].state = "rejected", ![src].reason = "fetch failed"]
    /\ settled' = Append(settled, src)
    /\ UNCHANGED <<found, notSearch>>

\* res.json() fulfils and the lookup returns the mapped results
BodyRead(src, value) ==
    /\ lookups[src].state = "reading"
    /\ lookups' = [lookups EXCEPT ![src].state = "fulfilled", ![src].value = value]
    /\ settled' = Append(settled, src)
    /\ UNCHANGED <<found, notSearch>>

\* res.json() rejects
BodyFails(src) ==
    /\ lookups[src].state = "reading"
    /\ lookups' = [lookups EXCEPT ![src].state = "rejected", ![src].reason = "json failed"]
    /\ settled' = Append(settled, src)
    /\ UNCHANGED <<found, notSearch>>

\* the sources of SearchSources from position i on: their results, and the
\* sources that failed with the reasons
RECURSIVE Collect(_, _, _)
Collect(ls, i, acc) ==
    IF i > Len(SearchSources) THEN acc
    ELSE LET src == SearchSources[i]
         IN  Collect(ls, i + 1,
                     IF ls[src].state = "fulfilled"
                     THEN [acc EXCEPT !.results = @ \o ls[src].value]
                     ELSE [acc EXCEPT !.errors = Append(@, [source |-> src, reason |-> ls[src].reason])])

\* search after its await: results and errors are filled and results returned
SearchReturns ==
    /\ found.pc = "pending"
    /\ PromiseAllSettled(lookups) # "pending"
    /\ found' = IF PromiseAllSettled(lookups) = "rejected"
                THEN [found EXCEPT !.pc = "rejected"]
                ELSE LET acc == Collect(lookups, 1, [results |-> <<>>, errors |-> <<>>])
                     IN  [pc |-> "resolved", results |-> acc.results, errors |-> acc.errors]
    /\ UNCHANGED <<lookups, settled, notSearch>>

NextSearch ==
    \/ \E src \in Range(SearchSources), ok \in BOOLEAN : FetchResponds(src, ok)
    \/ \E src \in Range(SearchSources) : FetchFails(src)
    \/ \E src \in Range(SearchSources) : \E value \in ResultLists(src) : BodyRead(src, value)
    \/ \E src \in Range(SearchSources) : BodyFails(src)
    \/ SearchReturns

SpecSearch == InitSearch /\ [][NextSearch]_vars

----------------------------------------------------------------------------
(* Properties of the hook composer (checked under SpecMerge) *)

\* the sequential slots mergeHooks chains
SequentialSlots ==
    { "event", "config",
      "chat.message", "chat.params", "chat.headers",
      "permission.ask", "command.execute.before",
      "tool.execute.before", "tool.execute.after", "tool.definition",
      "shell.env",
      "experimental.chat.messages.transform",
      "experimental.chat.system.transform",
      "experimental.session.compacting",
      "experimental.text.complete" }

\* the sequential slots of the specification's catalogue: the same, with a
\* post-command-execution slot beside the pre-command one
CatalogueSlots == SequentialSlots \cup {"command.execute.after"}

IsPrefix(a, b) == Len(a) <= Len(b) /\ a = SubSeq(b, 1, Len(a))

\* the primitive callables a callable calls, in call order
RECURSIVE Leaves(_)
Leaves(c) == IF c.k = "fn" THEN <<c.id>> ELSE Leaves(c.prev) \o Leaves(c.next)

\* the callables the hook sets folded so far contribute to slot s, in input order
ContributionOf(obj, s) == IF s \in DOMAIN obj THEN Leaves(obj[s]) ELSE <<>>

RECURSIVE Contributions(_, _)
Contributions(s, n) ==
    IF n = 0
    THEN ContributionOf(IF merges = <<>> THEN heap[1] ELSE merges[1].baseBefore.obj, s)
    ELSE Contributions(s, n - 1) \o ContributionOf(merges[n].otherBefore.obj, s)

\* every callable of ids run alone, one after the other
RECURSIVE SerialTrace(_)
SerialTrace(ids) ==
    IF ids = <<>> THEN <<>>
    ELSE << [ev |-> "start", fn |-> Head(ids)], [ev |-> "end", fn |-> Head(ids)] >>
         \o SerialTrace(Tail(ids))

\* the log with the settlement of a callable read as its end, however it settled
Settled(l) == [i \in DOMAIN l |-> [ev |-> IF l[i].ev = "throw" THEN "end" ELSE l[i].ev,
                                   fn |-> l[i].fn]]

\* C1: invoking the merged callable of a sequential slot calls the contributing
\* callables in input order, each started only after the previous one has run
\* to completion: at every moment the calls made so far are an initial part of
\* the serial run of all contributions in input order, at most one callable is
\* in flight, and when the composite call resolves every contribution has run
\* exactly once.
C1_ChainedInInputOrder ==
    (inv \in SequentialSlots) =>
        LET expected == SerialTrace(Contributions(inv, Len(merges)))
        IN  /\ IsPrefix(Settled(log), expected)
            /\ Len(running) <= 1
            /\ (status = "resolved" => log = expected)

C1_Witness ==
    /\ status = "resolved"
    /\ inv = "config"
    /\ Len(merges) = 2
    /\ \A i \in DOMAIN merges : merges[i].base # merges[i].other
    /\ Len(log) = 6
    /\ Cardinality({log[i].fn : i \in DOMAIN log}) = 3

\* the callables the log says were called, in call order
Started == SelectSeq(log, LAMBDA e : e.ev = "start")

\* C21: a chained callable does not isolate its stages from each other. When
\* a stage throws or rejects, the composite call rejects at once: the stages
\* before it have run to completion and what they did stands, the failing
\* stage is the last one called, and no stage after it is ever called. A
\* composite call that has not rejected has had no stage fail.
C21_FailureEndsChain ==
    (inv \in SequentialSlots) =>
        LET ids == Contributions(inv, Len(merges))
            n   == Len(Started)
        IN  /\ (\E i \in DOMAIN log : log[i].ev = "throw") <=> status = "rejected"
            /\ status = "rejected" =>
                  /\ n \in 1..Len(ids)
                  /\ log = SerialTrace(SubSeq(ids, 1, n - 1))
                              \o << [ev |-> "start", fn |-> ids[n]], [ev |-> "throw", fn |-> ids[n]] >>
                  /\ cont = <<>>
                  /\ running = <<>>

\* three hook sets contribute to the config slot; the second stage threw
\* after the first had completed, and the third was never called
C21_Witness ==
    /\ status = "rejected"
    /\ inv = "config"
    /\ Len(Contributions(inv, Len(merges))) = 3
    /\ Len(log) = 4
    /\ log[2].ev = "end" /\ log[4].ev = "throw"

\* the fields of a hook set that mergeHooks has no rule for
UnlistedFields == CallableFields \ SequentialSlots

\* the base of the first mergeHooks call
FirstBase == IF merges = <<>> THEN heap[1] ELSE merges[1].baseBefore.obj

\* C22: a field mergeHooks has no rule for (the auth hook, say) is in the
\* result exactly when it is in base, with base's value, whatever other
\* holds; so after any fold the accumulated hook set has such a field exactly
\* when the first base had it, and a fold that starts from a base without it
\* has lost the field of every hook set that brought one.
C22_UnlistedFieldsFromBaseOnly ==
    /\ \A i \in DOMAIN merges : \A s \in UnlistedFields :
          LET b == merges[i].baseBefore.obj
              r == merges[i].resultAfter.obj
          IN  /\ s \in DOMAIN r <=> s \in DOMAIN b
              /\ s \in DOMAIN b => r[s] = b[s]
    /\ \A s \in UnlistedFields :
          /\ Has(heap, hooks, s) <=> s \in DOMAIN FirstBase
          /\ Has(heap, hooks, s) => heap[hooks][s] = FirstBase[s]

\* two hook sets with a post-command hook were folded onto a base that has
\* an auth hook and no post-command hook: the auth hook is there, the
\* post-command hooks are lost
C22_Witness ==
    /\ play = "command.execute.after"
    /\ Len(merges) = 2
    /\ \A i \in DOMAIN merges :
          /\ merges[i].base # merges[i].other
          /\ play \in DOMAIN merges[i].otherBefore.obj
    /\ DOMAIN FirstBase = {"auth"}
    /\ DOMAIN heap[hooks] \cap UnlistedFields = {"auth"}

\* C2: the merged tool map has the union of the input tool maps' keys, each
\* key with the value of the last input hook set that defines it.
C2_ToolMapLastWins ==
    LET defining(k) == {i \in DOMAIN merges : k \in DOMAIN merges[i].otherBefore.tool}
        last(k)     == CHOOSE i \in defining(k) : \A j \in defining(k) : j <= i
        t           == Snap(heap, hooks).tool
    IN  /\ DOMAIN t = UNION {DOMAIN merges[i].otherBefore.tool : i \in DOMAIN merges}
        /\ \A k \in DOMAIN t : t[k] = merges[last(k)].otherBefore.tool[k]
        /\ Has(heap, hooks, "tool") <=>
               \E i \in DOMAIN merges : "tool" \in DOMAIN merges[i].otherBefore.obj

C2_Witness ==
    /\ Len(merges) = 2
    /\ \A i \in DOMAIN merges : merges[i].base # merges[i].other
    /\ DOMAIN merges[1].otherBefore.tool = {"x", "y"}
    /\ DOMAIN merges[2].otherBefore.tool = {"x"}
    /\ merges[1].otherBefore.tool["x"] # merges[2].otherBefore.tool["x"]
    /\ Snap(heap, hooks).tool["x"] = merges[2].otherBefore.tool["x"]
    /\ Snap(heap, hooks).tool["y"] = merges[1].otherBefore.tool["y"]

\* the three cases of a sequential slot s in one mergeHooks call
SlotRule(m, s) ==
    LET b == m.baseBefore.obj
        o == m.otherBefore.obj
        r == m.resultAfter.obj
    IN  /\ (s \notin DOMAIN o /\ s \in DOMAIN b) => (s \in DOMAIN r /\ r[s] = b[s])
        /\ (s \in DOMAIN o /\ s \notin DOMAIN b) => (s \in DOMAIN r /\ r[s] = o[s])
        /\ (s \in DOMAIN o /\ s \in DOMAIN b) =>
               (s \in DOMAIN r /\ r[s].k = "chain" /\ r[s].prev = b[s] /\ r[s].next = o[s])

\* C3 (as amended): for event, config and each of the thirteen listed hook
\* names (which hold the pre- but no post-command-execution slot),
\* mergeHooks(base, other) keeps base's callable when other has none, takes
\* other's callable as sole value when base has none, and chains both otherwise.
C3_SlotRuleOfListedSlots ==
    \A i \in DOMAIN merges : \A s \in SequentialSlots : SlotRule(merges[i], s)

\* C3 as claimed: the same for every slot of the catalogue, the
\* post-command-execution slot included.
C3_SlotRuleOfCatalogue ==
    \A i \in DOMAIN merges : \A s \in CatalogueSlots : SlotRule(merges[i], s)

C3_Witness ==
    /\ play = "tool.execute.after"
    /\ Len(merges) = 2
    /\ play \notin DOMAIN merges[1].baseBefore.obj
    /\ play \in DOMAIN merges[1].otherBefore.obj
    /\ merges[1].resultAfter.obj[play] = merges[1].otherBefore.obj[play]
    /\ play \in DOMAIN merges[2].otherBefore.obj
    /\ merges[2].resultAfter.obj[play].k = "chain"
    /\ "config" \in DOMAIN merges[2].baseBefore.obj
    /\ "config" \notin DOMAIN merges[2].otherBefore.obj
    /\ merges[2].resultAfter.obj["config"] = merges[2].baseBefore.obj["config"]

\* C4: mergeHooks(H, H) has H's tool map exactly, and its callable of each
\* sequential slot of H runs H's callable twice, the second run after the
\* first has completed.
C4_SelfMerge ==
    \A i \in DOMAIN merges :
        LET m == merges[i]
        IN  (m.base = m.other) =>
              /\ m.resultAfter.tool = m.baseBefore.tool
              /\ ("tool" \in DOMAIN m.resultAfter.obj) <=> ("tool" \in DOMAIN m.baseBefore.obj)
              /\ (i = Len(merges) /\ inv \in SequentialSlots) =>
                    LET once  == Leaves(m.baseBefore.obj[inv])
                        twice == SerialTrace(once \o once)
                    IN  /\ IsPrefix(Settled(log), twice)
                        /\ Len(running) <= 1
                        /\ (status = "resolved" => log = twice)

C4_Witness ==
    /\ Len(merges) = 2
    /\ merges[2].base = merges[2].other
    /\ merges[2].baseBefore.tool # EmptyObj
    /\ inv = "config"
    /\ merges[2].baseBefore.obj["config"].k = "chain"
    /\ status = "resolved"
    /\ Len(log) = 8

\* C5: mergeHooks mutates neither input: after the call and after every later
\* merge, base and other have the fields, the callables, the tool map object
\* and the tool map contents they had before the call, and the result is an
\* object of its own.
C5_InputsNotMutated ==
    \A i \in DOMAIN merges :
        LET m == merges[i]
        IN  /\ Snap(heap, m.base) = m.baseBefore
            /\ Snap(heap, m.other) = m.otherBefore
            /\ m.result \notin {m.base, m.other}

C5_Witness ==
    /\ Len(merges) = 2
    /\ merges[2].base = merges[1].result
    /\ merges[2].baseBefore.tool # EmptyObj
    /\ merges[2].otherBefore.tool # EmptyObj
    /\ merges[2].resultAfter.tool # merges[2].baseBefore.tool
    /\ play \in DOMAIN merges[2].baseBefore.obj
    /\ play \in DOMAIN merges[2].otherBefore.obj

----------------------------------------------------------------------------
(* Properties of the plugin module executor (checked under SpecLoad) *)

\* the functions module i exports
ExportedFns(i) ==
    {v.id : v \in {w \in Range(ValuesOf(pluginDir.entries[i].exports)) : w.kind = "fn"}}

\* C6 as claimed: a module that fails to load or a callable that throws stops
\* nothing else: when loadPlugins returns, every module file has been
\* imported and every callable exported by a module that loaded has been
\* invoked, those enumerated after a failing callable included.
C6_FailuresIsolated ==
    (lpc = "done") =>
        \A i \in DOMAIN pluginDir.entries :
            /\ pluginDir.entries[i].module => i \in Range(imports)
            /\ (pluginDir.entries[i].module /\ pluginDir.entries[i].loads) =>
                  \A f \in ExportedFns(i) : \E k \in DOMAIN calls : calls[k].fn = f

\* C7 as claimed: during one run a callable that has been invoked is never
\* invoked again, however many export names or module files expose it.
C7_NeverInvokedTwice ==
    \A j, k \in DOMAIN calls : j # k => calls[j].fn # calls[k].fn

\* the position among Object.values(mod) at which module i first exports f
FirstExport(i, f) ==
    LET vals == ValuesOf(pluginDir.entries[i].exports)
    IN  Min({x \in DOMAIN vals : vals[x].kind = "fn" /\ vals[x].id = f})

\* a is b with some of its elements left out
RECURSIVE IsSubsequence(_, _)
IsSubsequence(a, b) ==
    IF a = <<>> THEN TRUE
    ELSE IF b = <<>> THEN FALSE
    ELSE IF Head(a) = Head(b) THEN IsSubsequence(Tail(a), Tail(b))
    ELSE IsSubsequence(a, Tail(b))

\* the invocations that have settled: all but the one loadPlugins awaits
SettledCalls == IF lpc = "call" THEN SubSeq(calls, 1, Len(calls) - 1) ELSE calls

\* C20: modules are imported one at a time in directory order and callables
\* invoked one at a time, module by module and in export order within a
\* module; while an import is awaited no callable of that module or of a
\* later one has been invoked, and while a callable is awaited the module it
\* came from is the last one imported, so the next module is not loaded and
\* the next callable not invoked before the promise settles; the hook sets
\* collected are those of settled invocations, in invocation order.
C20_StrictlySerial ==
    /\ \A j, k \in DOMAIN imports : j < k => imports[j] < imports[k]
    /\ \A k \in DOMAIN calls :
          /\ calls[k].entry \in Range(imports)
          /\ calls[k].fn \in ExportedFns(calls[k].entry)
    /\ \A j, k \in DOMAIN calls :
          j < k =>
             \/ calls[j].entry < calls[k].entry
             \/ /\ calls[j].entry = calls[k].entry
                /\ FirstExport(calls[j].entry, calls[j].fn) < FirstExport(calls[k].entry, calls[k].fn)
    /\ lpc = "import" =>
          /\ imports # <<>> /\ imports[Len(imports)] = entry
          /\ \A k \in DOMAIN calls : calls[k].entry < entry
    /\ lpc = "call" =>
          /\ imports # <<>> /\ imports[Len(imports)] = entry
          /\ calls # <<>> /\ calls[Len(calls)].entry = entry
    /\ IsSubsequence(hooksList, SettledCalls)

\* a callable of the second module is awaited; the first module's callables
\* have settled and one of them gave a hook set
C20_Witness ==
    /\ lpc = "call" /\ entry = 2
    /\ imports = <<1, 2>>
    /\ Len(calls) >= 2 /\ calls[1].entry = 1
    /\ hooksList # <<>>

----------------------------------------------------------------------------
(* Properties of the agent and command loaders (checked under SpecAgents) *)

\* the markdown files of a listing that are read, and those whose read throws
GoodFiles(entries) ==
    {i \in DOMAIN entries :
        entries[i].isFile /\ IsMarkdown(entries[i].name) /\ entries[i].readable}

FailingFiles(entries) ==
    {i \in DOMAIN entries :
        entries[i].isFile /\ IsMarkdown(entries[i].name) /\ ~entries[i].readable}

\* the definition parseFrontmatter and the loader's spread make of one file
DefinitionOf(kind, e) ==
    LET parsed == parseFrontmatter(e.raw)
    IN  ((IF kind = "agents" THEN PromptKey ELSE TemplateKey)
            :> [t |-> "string", v |-> Trim(parsed.content)]) @@ parsed.data

\* C8: a loader that has returned gives, for a directory that exists, exactly
\* the definitions of the markdown files whose read and parse did not throw,
\* keyed by base filename, whatever files failed and wherever they are in the
\* listing; each failing file is reported in a warning; a directory that does
\* not exist gives the empty definition set.
C8_FileFailuresIsolated ==
    \A kind \in {"agents", "commands"} :
        (mdDirs # <<>> /\ loaded[kind].done) =>
            LET entries == EntriesOf(mdDirs[kind])
                res     == loaded[kind].result
            IN  /\ ~mdDirs[kind].exists => res = EmptyObj
                /\ mdDirs[kind].exists =>
                    /\ DOMAIN res = {Basename(entries[i].name) : i \in GoodFiles(entries)}
                    /\ \A i \in GoodFiles(entries) :
                          res[Basename(entries[i].name)] = DefinitionOf(kind, entries[i])
                    /\ \A i \in FailingFiles(entries) :
                          \E w \in DOMAIN mdWarnings :
                              /\ mdWarnings[w].name = entries[i].name
                              /\ mdWarnings[w].kind = IF kind = "agents" THEN "agent" ELSE "command"

\* the second of three agent files fails and both others are defined, while
\* the commands directory does not exist and gives nothing
C8_Witness ==
    /\ mdDirs # <<>>
    /\ loaded.agents.done /\ loaded.commands.done
    /\ mdDirs.agents.exists
    /\ Len(EntriesOf(mdDirs.agents)) = 3
    /\ GoodFiles(EntriesOf(mdDirs.agents)) = {1, 3}
    /\ FailingFiles(EntriesOf(mdDirs.agents)) = {2}
    /\ DOMAIN loaded.agents.result = {<<"a">>, <<"c">>}
    /\ PromptKey \in DOMAIN loaded.agents.result[<<"c">>]
    /\ ~mdDirs.commands.exists
    /\ loaded.commands.result = EmptyObj

----------------------------------------------------------------------------
(* Properties of the plugin activation (checked under SpecActivate) *)

\* the path of the module file of directory entry i
ModulePath(i) == PluginModule

\* C11 as claimed: an activation whose install pass created no file returns
\* the empty hook set and imports and invokes nothing; otherwise loadPlugins
\* is run only for module files this pass newly copied, never for one whose
\* destination file was already there and was skipped.
C11_OnlyNewModulesLoaded ==
    (act.pc \in {"loading", "returned"}) =>
        /\ report.created = <<>> =>
              /\ imports = <<>> /\ calls = <<>>
              /\ act.returned = [config |-> FALSE, merged |-> <<>>]
        /\ \A k \in DOMAIN imports :
              /\ ModulePath(imports[k]) \in Range(report.created)
              /\ ModulePath(imports[k]) \notin Range(report.skipped)

\* C23: with overwrite false, an install pass that follows another on the
\* same package, project and dirs copies and creates nothing, reports in
\* skipped exactly the paths the pass before reported in copied or skipped,
\* and leaves the project's tree as it was; the activation it is part of
\* returns the empty hook set and imports and invokes nothing.
C23_SecondPassIdempotent ==
    [][ (act.pc = "start" /\ passes >= 1 /\ ~overwrite) =>
            /\ report'.copied = <<>>
            /\ report'.created = <<>>
            /\ Range(report'.skipped) = Range(report.copied) \cup Range(report.skipped)
            /\ dest' = dest
            /\ destDirs' = destDirs
            /\ act'.pc = "returned"
            /\ act'.returned = [config |-> FALSE, merged |-> <<>>]
            /\ imports' = <<>> /\ calls' = <<>> ]_vars

\* the second session has ended: its pass skipped a file of the user's and a
\* file the first pass had copied (in a nested directory), changed nothing,
\* and the plugin returned the empty hook set
C23_Witness ==
    /\ passes = 2
    /\ act.pc = "returned"
    /\ act.returned = [config |-> FALSE, merged |-> <<>>]
    /\ report.copied = <<>> /\ report.created = <<>>
    /\ dest = destBefore
    /\ <<"agents", "a.md">> \in Range(report.skipped) /\ dest[<<"agents", "a.md">>] = "user"
    /\ <<"agents", "sub", "b.md">> \in Range(report.skipped) /\ dest[<<"agents", "sub", "b.md">>] = "pkg"
    /\ PluginModule \in Range(report.skipped) /\ dest[PluginModule] = "pkg"

----------------------------------------------------------------------------
(* Properties of the opencode.json plugin list (checked under SpecConfig) *)

\* the entries of a list other than p, in order
Without(l, p) == SelectSeq(l, LAMBDA q : q # p)

DuplicateFree(l) == \A i, j \in DOMAIN l : i # j => l[i] # l[j]

\* C16: addPlugin(p) returns true exactly when p was not listed, and then the
\* list is the old one with p appended; it returns false and writes nothing
\* when p is listed. removePlugin(p) returns true exactly when p was listed.
\* From a duplicate-free list the list stays duplicate-free, the other entries
\* keep their order, and a package that was the subject of a call is listed
\* if and only if the last call on it was addPlugin.
C16_PluginListToggles ==
    /\ DuplicateFree(PluginsOf(readConfig(manifest)))
    /\ lastCall # <<>> =>
          \A q \in Packages :
              lastCall[q] # "none" =>
                  (q \in Range(PluginsOf(readConfig(manifest))) <=> lastCall[q] = "add")
    /\ lastOp # <<>> =>
          LET old == PluginsOf(readConfig(lastOp.before))
              new == PluginsOf(readConfig(manifest))
              p   == lastOp.p
          IN  /\ Without(new, p) = Without(old, p)
              /\ lastOp.op = "add" =>
                    /\ lastOp.ret <=> p \notin Range(old)
                    /\ lastOp.ret => new = Append(old, p) /\ lastOp.wrote
                    /\ ~lastOp.ret => ~lastOp.wrote /\ manifest = lastOp.before
              /\ lastOp.op = "remove" =>
                    /\ lastOp.ret <=> p \in Range(old)
                    /\ p \notin Range(new)

\* a package is added again when it is already listed, between two others
\* that were added and removed before
C16_Witness ==
    /\ lastOp # <<>>
    /\ lastOp.op = "add" /\ lastOp.p = "pkg" /\ ~lastOp.ret
    /\ lastCall = [a |-> "remove", b |-> "add", pkg |-> "add"]
    /\ manifest.plugin = <<"pkg", "b">>

----------------------------------------------------------------------------
(* Properties of the add and remove commands (checked under SpecCli) *)

\* the names of the steps of the command that is running or ran last
StepsNow ==
    LET mine == SelectSeq(steps, LAMBDA st : st.n = cli.n)
    IN  [i \in DOMAIN mine |-> mine[i].step]

\* whether the npm subprocess of the command that is running or ran last failed
NpmFailedNow ==
    \E i \in DOMAIN steps :
        /\ steps[i].n = cli.n
        /\ steps[i].step \in {"npm install", "npm uninstall"}
        /\ ~steps[i].ok

\* C12 as claimed: after remove, every file under .opencode/ that the
\* installer did not copy there (a file of the user's, one that was skipped
\* by the install included) is still there with the content it had.
C12_UserFilesKept ==
    (cli.cmd = "remove" /\ cli.pc = "done") =>
        \A f \in DOMAIN cli.dest0 :
            cli.dest0[f] = "user" => f \in DOMAIN dest /\ dest[f] = "user"

\* C17: add runs npm install, then the copy of the assets, then the
\* registration, in that order (the copy is left out only when the package
\* has no opencode/ directory); when npm install fails or the package root is
\* not found, add rejects and has copied no file and left opencode.json as it
\* was; opencode.json is not changed before the copy has finished, and an add
\* that resolved has the package registered.
C17_AddStepsInOrder ==
    (cli.cmd = "add") =>
        /\ StepsNow \in { <<"npm install">>, <<"npm install", "copy">>,
                          <<"npm install", "copy", "register">>,
                          <<"npm install", "register">> }
        /\ StepsNow = <<"npm install", "register">> => source = {}
        /\ (NpmFailedNow \/ ~installed) => cli.outcome = "rejected"
        /\ cli.outcome = "rejected" =>
              /\ StepsNow = <<"npm install">>
              /\ dest = cli.dest0
              /\ manifest = cli.manifest0
        /\ cli.outcome = "pending" =>
              /\ StepsNow = <<"npm install", "copy">>
              /\ manifest = cli.manifest0
        /\ cli.outcome = "resolved" =>
              /\ "register" \in Range(StepsNow)
              /\ ThePackage \in Range(PluginsOf(readConfig(manifest)))

\* a first add installed, copied a file and registered the package; a second
\* add whose npm install fails rejects and leaves the project as it was
C17_Witness ==
    /\ cli.cmd = "add" /\ cli.n = 2 /\ cli.outcome = "rejected"
    /\ [i \in DOMAIN steps |-> steps[i].step] =
          <<"npm install", "copy", "register", "npm install">>
    /\ steps[3].ok /\ ~steps[4].ok
    /\ report.created # <<>>
    /\ dest = cli.dest0 /\ manifest = cli.manifest0

\* C18 as claimed: when the npm subprocess a command runs fails, the command
\* rejects; the failure is never swallowed.
C18_NpmFailureSurfaces ==
    (cli.pc = "done" /\ NpmFailedNow) => cli.outcome = "rejected"

----------------------------------------------------------------------------
(* Properties of the metadata parser (checked under SpecParse) *)

\* the document begins with a line that is ---
BeginsWithDashLine(d) ==
    \/ d = Dashes
    \/ StartsWith(d, Dashes \o <<"\n">>)
    \/ StartsWith(d, Dashes \o <<"\r", "\n">>)

\* a line that is --- starts at position i of the document
DashLineAt(d, i) ==
    /\ i > 1 /\ d[i - 1] = "\n"
    /\ StartsWithAt(d, i, Dashes)
    /\ \/ i + 2 = Len(d)
       \/ StartsWithAt(d, i + 3, <<"\n">>)
       \/ StartsWithAt(d, i + 3, <<"\r", "\n">>)

\* where the lines that are --- start, after the first line
ClosingLines(d) == {i \in 5..Len(d) : DashLineAt(d, i)}

\* the document has a header: a first line that is --- and a later one
HasHeader(d) == BeginsWithDashLine(d) /\ ClosingLines(d) # {}

\* the text after the line that closes the header
BodyText(d) ==
    LET i == Min(ClosingLines(d))
    IN  SubSeq(d, SkipLF(d, SkipCR(d, i + 3)), Len(d))

\* C13 as claimed: for a document that does not begin with a --- line, and
\* for one that does but has no later line that is ---, parseFrontmatter
\* returns an empty metadata map and the document itself, character for
\* character, as the body.
C13_FallbackWithoutHeader ==
    (parseOut.op = "parseFrontmatter" /\ ~HasHeader(doc)) =>
        /\ parseOut.data = EmptyObj
        /\ parseOut.content = doc

\* C14 as claimed, for the body as the loaders store it (content.trim()): for
\* a document with a header, the body is the text after the closing line,
\* with the white space around it trimmed.
C14_BodyIsTrimmedRest ==
    (parseOut.op = "load" /\ HasHeader(doc)) =>
        parseOut.body = Trim(BodyText(doc))

Unsigned(s) == IF s # <<>> /\ s[1] \in {"+", "-"} THEN Tail(s) ELSE s

\* the text denotes a finite number
IsFiniteNumber(s) ==
    IsNumeric(s) /\ Unsigned(Trim(s)) # <<"I", "n", "f", "i", "n", "i", "t", "y">>

IsQuoted(s) ==
    /\ Len(s) >= 2
    /\ \/ s[1] = "\"" /\ s[Len(s)] = "\""
       \/ s[1] = "'" /\ s[Len(s)] = "'"

\* C15 as claimed: true and false give booleans; otherwise a text that
\* denotes a finite number and is not only white space gives a number;
\* otherwise a text in one pair of matching quotes gives the text between
\* them; otherwise the value is the trimmed text. No text that does not
\* denote a finite number gives a number.
C15_ScalarPrecedence ==
    (parseOut.op = "parseValue") =>
        /\ parseOut.value.t = "boolean" <=> doc \in {<<"t", "r", "u", "e">>, <<"f", "a", "l", "s", "e">>}
        /\ parseOut.value.t = "number" <=>
              /\ doc \notin {<<"t", "r", "u", "e">>, <<"f", "a", "l", "s", "e">>}
              /\ IsFiniteNumber(doc) /\ Trim(doc) # <<>>
        /\ parseOut.value.t = "string" =>
              parseOut.value.v = IF IsQuoted(doc) THEN SubSeq(doc, 2, Len(doc) - 1) ELSE Trim(doc)

----------------------------------------------------------------------------
(* Properties of search (checked under SpecSearch) *)

\* what a lookup contributed: its results when it succeeded, nothing otherwise
ResultsOf(src) == IF lookups[src].state = "fulfilled" THEN lookups[src].value ELSE <<>>

\* C19: the two lookups are under way together and settle in either order;
\* search never rejects; it resolves only when both lookups have settled,
\* whatever their outcomes, and what it returns is the npm results followed
\* by the GitHub results of the lookups that succeeded, so that a failed
\* lookup takes nothing away from the other's results.
C19_SearchFailSoft ==
    /\ found.pc # "rejected"
    /\ \A src \in Range(SearchSources) :
          src \notin Range(settled) <=> lookups[src].state \in {"fetching", "reading"}
    /\ found.pc = "resolved" =>
          /\ \A src \in Range(SearchSources) : lookups[src].state \in {"fulfilled", "rejected"}
          /\ found.results = ResultsOf("npm") \o ResultsOf("github")
          /\ {e.source : e \in Range(found.errors)} =
                {src \in Range(SearchSources) : lookups[src].state = "rejected"}

\* the GitHub lookup answered first, the npm lookup failed after it, and
\* search resolved with the GitHub results
C19_Witness ==
    /\ settled = <<"github", "npm">>
    /\ lookups["npm"].state = "rejected"
    /\ lookups["github"].state = "fulfilled" /\ lookups["github"].value # <<>>
    /\ found.pc = "resolved"
    /\ found.results = lookups["github"].value

----------------------------------------------------------------------------
(* Properties of the installer (checked under SpecInstall) *)

\* C9 as claimed: in the report of any install pass, whatever the destination
\* tree, the overwrite flag and the dirs list, every created path is a copied
\* path and no path is both skipped and copied.
C9_ReportPartition ==
    (passes > 0) =>
        /\ Range(report.created) \subseteq Range(report.copied)
        /\ Range(report.skipped) \cap Range(report.copied) = {}

\* the package ships a file at path f under one of the installed dirs
Shipped(f) == f \in source /\ f[1] \in Range(dirs)

\* C10 (as amended): with overwrite false, a file that was at the destination
\* before the pass has the same content afterwards and is neither copied nor
\* created; it is reported in skipped exactly when the package ships a file
\* at its path under one of the installed dirs.
C10_ExistingFilesKept ==
    (passes > 0 /\ ~overwrite) =>
        \A f \in DOMAIN destBefore :
            /\ f \in DOMAIN dest /\ dest[f] = destBefore[f]
            /\ f \notin Range(report.copied)
            /\ f \notin Range(report.created)
            /\ f \in Range(report.skipped) <=> Shipped(f)

\* C10 as claimed: every file that was at the destination before the pass is
\* unchanged, reported in skipped, and neither copied nor created.
C10_ExistingFilesAllSkipped ==
    (passes > 0 /\ ~overwrite) =>
        \A f \in DOMAIN destBefore :
            /\ f \in DOMAIN dest /\ dest[f] = destBefore[f]
            /\ f \notin Range(report.copied)
            /\ f \notin Range(report.created)
            /\ f \in Range(report.skipped)

C10_Witness ==
    /\ passes = 1
    /\ ~overwrite
    /\ dirs = DEFAULT_DIRS
    /\ <<"commands", "bar.md">> \in DOMAIN destBefore
    /\ destBefore[<<"commands", "bar.md">>] = "user"
    /\ <<"commands", "bar.md">> \in source
    /\ <<"commands", "bar.md">> \in Range(report.skipped)
    /\ <<"agents", "a.md">> \in Range(report.created)

====
